---- MODULE Spec2Model ----
(***************************************************************************)
(* Trade lifecycle correlator of the TradingView webhook executor:         *)
(* webhook pipeline (routes/webhooks.py), payload normalizer               *)
(* (services/webhook_normalizer.py), Oanda indicator parser                *)
(* (services/parsers/oanda_indicator.py), symbol converter                 *)
(* (services/symbol_converter.py) and trade grouping service               *)
(* (services/trade_grouping.py).                                           *)
(*                                                                         *)
(* Text is a sequence of one-character strings, so that substring tests,   *)
(* case conversion and slicing are computed as the Python code computes    *)
(* them.  Numbers are integers in units of 0.00001 (1.0 is 100000).        *)
(* An optional value is <<>> (None) or <<v>>.                              *)
(*                                                                         *)
(* history, now, nextId, config, inflight and failed are the state of the  *)
(* webhook pipeline.  arg and ret are the argument and the outcome of one  *)
(* call of a function that reads no state (normalize, detect_alert_type,   *)
(* detect_sltp_changes, calculate_exit_pnl).                               *)
(***************************************************************************)
EXTENDS Integers, Sequences, FiniteSets, TLC

VARIABLES history, now, nextId, config, inflight, failed, arg, ret

vars == <<history, now, nextId, config, inflight, failed, arg, ret>>

-----------------------------------------------------------------------------
(* Text helpers: str.lower, str.upper, `in`, startswith, endswith, replace *)

LowerAlphabet ==
  <<"a","b","c","d","e","f","g","h","i","j","k","l","m",
    "n","o","p","q","r","s","t","u","v","w","x","y","z">>

UpperAlphabet ==
  <<"A","B","C","D","E","F","G","H","I","J","K","L","M",
    "N","O","P","Q","R","S","T","U","V","W","X","Y","Z">>

\* The element of a singleton set.  Only({e : x \in {v}}) is e with x naming
\* the value of v, which is then computed once however often e uses it.
Only(S) == CHOOSE x \in S : TRUE

IndexIn(c, alphabet) ==
  Only({IF \E i \in 1..Len(a) : a[i] = x
        THEN CHOOSE i \in 1..Len(a) : a[i] = x
        ELSE 0 : x \in {c}, a \in {alphabet}})

LowerChar(c) ==
  Only({IF i = 0 THEN c ELSE LowerAlphabet[i] : i \in {IndexIn(c, UpperAlphabet)}})

UpperChar(c) ==
  Only({IF i = 0 THEN c ELSE UpperAlphabet[i] : i \in {IndexIn(c, LowerAlphabet)}})

Lower(s) == Only({[i \in 1..Len(x) |-> LowerChar(x[i])] : x \in {s}})

Upper(s) == Only({[i \in 1..Len(x) |-> UpperChar(x[i])] : x \in {s}})

Contains(sub, s) ==
  \E x \in {s} : \E i \in 0..(Len(x) - Len(sub)) : SubSeq(x, i + 1, i + Len(sub)) = sub

StartsWith(s, p) ==
  \E x \in {s} : Len(p) <= Len(x) /\ SubSeq(x, 1, Len(p)) = p

EndsWith(s, p) ==
  \E x \in {s} : Len(p) <= Len(x) /\ SubSeq(x, Len(x) - Len(p) + 1, Len(x)) = p

RemoveChar(s, c) == SelectSeq(s, LAMBDA x : x # c)

Min(a, b) == Only({IF x <= y THEN x ELSE y : x \in {a}, y \in {b}})

Abs(x) == Only({IF y < 0 THEN -y ELSE y : y \in {x}})

\* s[:k] and s[k:] of Python
Take(s, k) == Only({SubSeq(x, 1, Min(k, Len(x))) : x \in {s}})

Drop(s, k) == Only({SubSeq(x, Min(k, Len(x)) + 1, Len(x)) : x \in {s}})

None == <<>>

Some(v) == <<v>>

-----------------------------------------------------------------------------
(* Text constants                                                          *)

s_empty == <<>>
s_long == <<"l","o","n","g">>
s_short == <<"s","h","o","r","t">>
s_flat == <<"f","l","a","t">>
s_buy == <<"b","u","y">>
s_sell == <<"s","e","l","l">>
s_enter_ == <<"e","n","t","e","r","_">>
s_entry_ == <<"e","n","t","r","y","_">>
s_reduce_ == <<"r","e","d","u","c","e","_">>
s_exit_ == <<"e","x","i","t","_">>
s_reduce == <<"r","e","d","u","c","e">>
s_exit == <<"e","x","i","t">>
s_enter_long == s_enter_ \o s_long
s_enter_short == s_enter_ \o s_short
s_reduce_long == s_reduce_ \o s_long
s_reduce_short == s_reduce_ \o s_short
s_exit_long == s_exit_ \o s_long
s_exit_short == s_exit_ \o s_short
s_market == <<"m","a","r","k","e","t">>
s_braces == <<"{","{">>

s_ENTRY == <<"E","N","T","R","Y">>
s_TP == <<"T","P">>
s_TP1 == <<"T","P","1">>
s_TP2 == <<"T","P","2">>
s_TP3 == <<"T","P","3">>
s_TP4 == <<"T","P","4">>
s_TP5 == <<"T","P","5">>
s_SL == <<"S","L">>
s_SL1 == <<"S","L","1">>
s_SL2 == <<"S","L","2">>
s_SL3 == <<"S","L","3">>
s_STOP == <<"S","T","O","P">>
s_PARTIAL == <<"P","A","R","T","I","A","L">>
s_EXIT == <<"E","X","I","T">>
s_UNKNOWN == <<"U","N","K","N","O","W","N">>

s_1st_target == <<"1","s","t"," ","t","a","r","g","e","t">>
s_2nd_target == <<"2","n","d"," ","t","a","r","g","e","t">>
s_3rd_target == <<"3","r","d"," ","t","a","r","g","e","t">>
s_stop_loss_sp == <<"s","t","o","p"," ","l","o","s","s">>

s_USDT == <<"U","S","D","T">>
s_USDC == <<"U","S","D","C">>
s_BTC == <<"B","T","C">>
s_ETH == <<"E","T","H">>
s_BTCUSDT == s_BTC \o s_USDT
s_BTC_USDT == s_BTC \o <<"-">> \o s_USDT
s_EURUSD == <<"E","U","R","U","S","D">>
s_EUR_USD == <<"E","U","R","_","U","S","D">>

Digits == <<"0","1","2","3","4","5","6","7","8","9">>

-----------------------------------------------------------------------------
(* JSON values of a payload: null, a string, a number, a boolean; and an   *)
(* ISO-8601 time text for instant n, with or without a zone designator.    *)

Null == [t |-> "null", s |-> <<>>, n |-> 0]

Str(x) == [t |-> "str", s |-> x, n |-> 0]

Num(k) == [t |-> "num", s |-> <<>>, n |-> k]

Bool(b) == [t |-> "bool", s |-> <<>>, n |-> IF b THEN 1 ELSE 0]

Iso(k, zone) == [t |-> "iso", s |-> IF zone THEN <<"Z">> ELSE <<>>, n |-> k]

\* Python truthiness of a JSON value
Truthy(v) ==
  CASE v.t = "null" -> FALSE
    [] v.t = "str"  -> v.s # <<>>
    [] v.t = "iso"  -> TRUE
    [] OTHER        -> v.n # 0

-----------------------------------------------------------------------------
(* SymbolConverter.normalize_symbol                                        *)

BlofinQuotes == <<s_USDT, s_USDC, s_BTC, s_ETH>>

\* the body of normalize_symbol once '-', '_' and '/' are removed
ConvertClean(symbol, clean_symbol, broker) ==
  LET matching == {i \in 1..Len(BlofinQuotes) : EndsWith(clean_symbol, BlofinQuotes[i])}
  IN  IF broker = "blofin"
      THEN IF matching # {}
           THEN LET quote == BlofinQuotes[CHOOSE i \in matching : \A j \in matching : i <= j]
                IN  Take(clean_symbol, Len(clean_symbol) - Len(quote)) \o <<"-">> \o quote
           ELSE Take(clean_symbol, 3) \o <<"-">> \o Drop(clean_symbol, 3)
      ELSE IF broker = "oanda"
      THEN IF Len(clean_symbol) = 6
           THEN Take(clean_symbol, 3) \o <<"_">> \o Drop(clean_symbol, 3)
           ELSE IF Len(clean_symbol) = 7
           THEN Take(clean_symbol, 4) \o <<"_">> \o Drop(clean_symbol, 4)
           ELSE Take(clean_symbol, Len(clean_symbol) \div 2) \o <<"_">>
                  \o Drop(clean_symbol, Len(clean_symbol) \div 2)
      ELSE symbol

normalize_symbol(symbol, broker) ==
  Only({ConvertClean(symbol, clean_symbol, broker) :
          clean_symbol \in {Upper(RemoveChar(RemoveChar(RemoveChar(symbol, "-"), "_"),
                                             "/"))}})

-----------------------------------------------------------------------------
(* The JSON payload of one alert.  A field that the payload does not carry *)
(* is Null.  The am_ fields are those of the embedded order_alert_message  *)
(* mapping (alert_params).                                                 *)

EmptyPayload ==
  [symbol |-> Null, instrument |-> Null, ticker |-> Null,
   action |-> Null, side |-> Null, order_action |-> Null,
   order_type |-> Null, am_order_type |-> Null,
   position_size |-> Null, am_position_size |-> Null,
   market_position |-> Null, am_market_position |-> Null,
   prev_market_position |-> Null, am_prev_market_position |-> Null,
   order_price |-> Null, price |-> Null,
   timestamp |-> Null, order_id |-> Null, order_comment |-> Null,
   signal_type |-> Null, am_signal_type |-> Null,
   quantity |-> Null, order_contracts |-> Null,
   entry_price |-> Null, exit_price |-> Null, close |-> Null,
   tp_count |-> Null, am_action |-> Null,
   is_bull |-> Null, is_bear |-> Null, is_bull_exit |-> Null,
   is_bear_exit |-> Null, plot_0 |-> Null]

-----------------------------------------------------------------------------
(* WebhookNormalizer helpers                                               *)

\* _get_first_valid: the first value that is not None
_get_first_valid(values) ==
  LET present == {i \in 1..Len(values) : values[i].t # "null"}
  IN  IF present = {} THEN Null
      ELSE values[CHOOSE i \in present : \A j \in present : i <= j]

\* the text between the first and the last of the positions to keep
Between(s, keep) ==
  IF keep = {} THEN <<>>
  ELSE SubSeq(s, CHOOSE i \in keep : \A j \in keep : i <= j,
                 CHOOSE i \in keep : \A j \in keep : i >= j)

Strip(s) ==
  Only({Only({Between(x, keep) : keep \in {{i \in 1..Len(x) : x[i] # " "}}}) :
          x \in {s}})

IsDigits(s) ==
  \E x \in {s} : Len(x) > 0 /\ \A i \in 1..Len(x) : IndexIn(x[i], Digits) # 0

RECURSIVE DigitsValue(_)
DigitsValue(s) ==
  Only({IF Len(x) = 0 THEN 0
        ELSE 10 * DigitsValue(SubSeq(x, 1, Len(x) - 1))
               + (IndexIn(x[Len(x)], Digits) - 1) : x \in {s}})

\* 10^k
RECURSIVE Pow10(_)
Pow10(k) == IF k = 0 THEN 1 ELSE 10 * Pow10(k - 1)

\* float() of an unsigned decimal literal with at most five decimals
\* float() of the digits before and after a decimal point
DecimalOf(whole, frac) ==
  IF /\ Len(whole) + Len(frac) > 0
     /\ Len(frac) <= 5
     /\ \A i \in 1..Len(whole) : IndexIn(whole[i], Digits) # 0
     /\ \A i \in 1..Len(frac) : IndexIn(frac[i], Digits) # 0
  THEN Some(DigitsValue(whole) * 100000 + DigitsValue(frac) * Pow10(5 - Len(frac)))
  ELSE None

\* float() of a text whose decimal point is at position dot (0: none)
UnsignedAt(s, dot) ==
  IF dot = 0
  THEN IF IsDigits(s) THEN Some(DigitsValue(s) * 100000) ELSE None
  ELSE Only({DecimalOf(whole, frac) :
               whole \in {Take(s, dot - 1)}, frac \in {Drop(s, dot)}})

UnsignedOfText(s) ==
  Only({Only({UnsignedAt(x, dot) : dot \in {IndexIn(".", x)}}) : x \in {s}})

\* the floats that are no number of the scale: nan, and inf with its sign
NaN == <<0, 0>>

Infinity(sign) == <<sign, 0>>

IsFinite(x) == Len(x) = 1

s_nan == <<"n","a","n">>
s_inf == <<"i","n","f">>
s_infinity == <<"i","n","f","i","n","i","t","y">>

\* float() of the text after the sign
MagnitudeOfText(negative, rest, word) ==
  IF word = s_nan THEN NaN
  ELSE IF word \in {s_inf, s_infinity} THEN Infinity(IF negative THEN 0 - 1 ELSE 1)
  ELSE Only({IF magnitude = None THEN None
             ELSE IF negative THEN Some(0 - magnitude[1])
             ELSE magnitude : magnitude \in {UnsignedOfText(rest)}})

\* float(text) for decimal literals, nan and inf, in units of 0.00001; None
\* where the text is no number and Python raises ValueError
\* float() of a stripped text: an optional sign and a magnitude
SignedOfText(stripped) ==
  LET signed == Len(stripped) > 0 /\ stripped[1] \in {"-", "+"}
      negative == signed /\ stripped[1] = "-"
  IN  Only({Only({MagnitudeOfText(negative, rest, word) : word \in {Lower(rest)}}) :
              rest \in {IF signed THEN Drop(stripped, 1) ELSE stripped}})

FloatOfText(s) == Only({SignedOfText(stripped) : stripped \in {Strip(s)}})

\* _parse_float
_parse_float(value) ==
  CASE value.t = "null" -> None
    [] value.t = "str"  -> FloatOfText(value.s)
    [] value.t = "iso"  -> None
    [] value.t = "num"  -> Some(value.n)
    [] OTHER            -> Some(value.n * 100000)

\* int() of a finite float: the digits before the point, with the sign
Truncate(n) == IF n < 0 THEN 0 - ((0 - n) \div 100000) ELSE n \div 100000

\* _parse_int: int(float(value)); ValueError and TypeError give None, the
\* OverflowError of int(inf) is not caught
_parse_int(value) ==
  Only({IF f = None \/ f = NaN THEN [raised |-> FALSE, value |-> None]
        ELSE IF ~IsFinite(f) THEN [raised |-> TRUE, value |-> None]
        ELSE [raised |-> FALSE, value |-> Some(Truncate(f[1]))] :
          f \in {_parse_float(value)}})

s_true == <<"t","r","u","e">>
s_false == <<"f","a","l","s","e">>
s_yes == <<"y","e","s">>
s_no == <<"n","o">>

\* _parse_bool: None, or <<TRUE>>, <<FALSE>>
_parse_bool(value) ==
  CASE value.t = "null" -> None
    [] value.t = "bool" -> Some(value.n = 1)
    [] value.t = "num"  -> Some(value.n = 100000)
    [] value.t = "str"  ->
         Only({IF val_lower \in {s_true, <<"1">>, s_yes} THEN Some(TRUE)
               ELSE IF val_lower \in {s_false, <<"0">>, s_no, <<>>} THEN Some(FALSE)
               ELSE None : val_lower \in {Lower(Strip(value.s))}})
    [] OTHER            -> None

\* the first of the fields that is a non-empty string and no template
\* placeholder
FirstTextField(fields) ==
  LET ok == {i \in 1..Len(fields) :
               /\ fields[i].t = "str"
               /\ fields[i].s # <<>>
               /\ ~StartsWith(fields[i].s, s_braces)}
  IN  IF ok = {} THEN <<>>
      ELSE fields[CHOOSE i \in ok : \A j \in ok : i <= j].s

\* the keyword tests of detect_alert_type_from_data on the lowered order type
\* and order id and the upper-cased comment
DetectFrom(order_type_lower, order_comment, comment_upper, order_id, order_id_lower) ==
      IF Contains(s_enter_, order_type_lower) \/ Contains(s_entry_, order_type_lower)
      THEN s_ENTRY
      ELSE IF order_comment # <<>> /\ Contains(s_TP1, comment_upper) THEN s_TP1
      ELSE IF order_comment # <<>> /\ Contains(s_TP2, comment_upper) THEN s_TP2
      ELSE IF order_comment # <<>> /\ Contains(s_TP3, comment_upper) THEN s_TP3
      ELSE IF order_comment # <<>>
              /\ (Contains(s_SL, comment_upper) \/ Contains(s_STOP, comment_upper))
      THEN s_SL
      ELSE IF order_id # <<>> /\ Contains(s_1st_target, order_id_lower) THEN s_TP1
      ELSE IF order_id # <<>> /\ Contains(s_2nd_target, order_id_lower) THEN s_TP2
      ELSE IF order_id # <<>> /\ Contains(s_3rd_target, order_id_lower) THEN s_TP3
      ELSE IF order_id # <<>> /\ Contains(s_stop_loss_sp, order_id_lower) THEN s_SL
      ELSE IF Contains(s_reduce_, order_type_lower) THEN s_PARTIAL
      ELSE IF Contains(s_exit_, order_type_lower) THEN s_EXIT
      ELSE s_UNKNOWN

\* detect_alert_type_from_data
detect_alert_type_from_data(order_type, order_comment, order_id) ==
  Only({DetectFrom(order_type_lower, order_comment, comment_upper, order_id,
                   order_id_lower) :
          order_type_lower \in {Lower(order_type)},
          comment_upper \in {Upper(order_comment)},
          order_id_lower \in {Lower(order_id)}})

\* faulty variant of detect_alert_type: the order id is looked at before the
\* order comment
DetectIdFirst(normalized) ==
  Only({IF Contains(s_enter_, order_type) \/ Contains(s_entry_, order_type)
        THEN s_ENTRY
        ELSE IF Contains(s_1st_target, order_id_lower) THEN s_TP1
        ELSE IF Contains(s_2nd_target, order_id_lower) THEN s_TP2
        ELSE IF Contains(s_3rd_target, order_id_lower) THEN s_TP3
        ELSE IF Contains(s_stop_loss_sp, order_id_lower) THEN s_SL
        ELSE DetectFrom(order_type, normalized.order_comment, comment_upper,
                        normalized.order_id, order_id_lower) :
          order_type \in {Lower(normalized.order_type)},
          comment_upper \in {Upper(normalized.order_comment)},
          order_id_lower \in {Lower(normalized.order_id)}})

\* detect_alert_type: the same tests as detect_alert_type_from_data, on the
\* order_type, order_comment and order_id of a NormalizedWebhook
detect_alert_type(normalized) ==
  Only({DetectFrom(order_type, normalized.order_comment, comment_upper,
                   normalized.order_id, order_id_lower) :
          order_type \in {Lower(normalized.order_type)},
          comment_upper \in {Upper(normalized.order_comment)},
          order_id_lower \in {Lower(normalized.order_id)}})

-----------------------------------------------------------------------------
(* WebhookNormalizer.normalize: the fields the correlator and the log      *)
(* entry read.  raised is TRUE when the Python code raises (a truthy       *)
(* order_type, order_comment or order_id that is no string has no          *)
(* lower()/upper()).                                                       *)

s_bull_entry == <<"b","u","l","l","_","e","n","t","r","y">>
s_bull == <<"b","u","l","l">>
s_bear_entry == <<"b","e","a","r","_","e","n","t","r","y">>
s_bear == <<"b","e","a","r">>
s_tp1 == Lower(s_TP1)
s_tp2 == Lower(s_TP2)
s_tp3 == Lower(s_TP3)
s_tp4 == Lower(s_TP4)
s_tp5 == Lower(s_TP5)
s_sl == Lower(s_SL)
s_sl1 == Lower(s_SL1)
s_sl2 == Lower(s_SL2)
s_sl3 == Lower(s_SL3)
s_stop_loss == <<"s","t","o","p","_","l","o","s","s">>
s_stoploss == <<"s","t","o","p","l","o","s","s">>
s_close == <<"c","l","o","s","e">>
s_other == <<"#">>

\* str(a or b).lower(): the text of a value that is no string is no keyword
LowerTextOf(a, b) ==
  LET v == IF Truthy(a) THEN a ELSE b
  IN  IF v.t = "str" THEN Lower(v.s)
      ELSE IF v.t = "null" THEN <<>> ELSE s_other

\* the text of an optional string field (None and '' are both falsy)
TextOrEmpty(v) == IF v.t = "str" THEN v.s ELSE <<>>

SignalEntryLong == {s_bull_entry, s_bull, s_long, s_buy}

SignalEntryShort == {s_bear_entry, s_bear, s_short, s_sell}

SignalStop == {s_stop_loss, s_sl, s_stoploss}

SignalExit == {s_exit, s_close, s_flat}

\* lines 241-261 and 545: action, order_type, alert_type and market_position
\* as the regular fields of the payload give them
RegularFields(raw_payload, order_type0, alert_type0, market_position0) ==
  [action |-> Lower(FirstTextField(
                <<raw_payload.action, raw_payload.side, raw_payload.order_action>>)),
   order_type |-> order_type0,
   alert_type |-> alert_type0,
   market_position |-> market_position0]

\* lines 558-601: a signal_type that is one of the known words sets the fields
SignalTypeFallback(f, signal_type) ==
  IF signal_type \in SignalEntryLong
  THEN [action |-> s_buy, order_type |-> s_enter_long, alert_type |-> s_ENTRY,
        market_position |-> s_long]
  ELSE IF signal_type \in SignalEntryShort
  THEN [action |-> s_sell, order_type |-> s_enter_short, alert_type |-> s_ENTRY,
        market_position |-> s_short]
  ELSE IF signal_type \in {s_tp1, s_tp2, s_tp3, s_tp4, s_tp5}
  THEN [f EXCEPT !.alert_type = Upper(signal_type), !.order_type = s_reduce]
  ELSE IF signal_type \in SignalStop
  THEN [f EXCEPT !.alert_type = s_SL, !.order_type = s_exit]
  ELSE IF signal_type \in SignalExit
  THEN [f EXCEPT !.alert_type = s_EXIT, !.order_type = s_exit]
  ELSE f

\* lines 603-624: the Bull/Bear flags, read when there is neither a signal_type
\* nor an action
BullBearFallback(f, signal_type, raw_payload) ==
  IF signal_type # <<>> \/ f.action # <<>> THEN f
  ELSE IF _parse_bool(raw_payload.is_bull) = Some(TRUE)
  THEN [action |-> s_buy, order_type |-> s_enter_long, alert_type |-> s_ENTRY,
        market_position |-> s_long]
  ELSE IF _parse_bool(raw_payload.is_bear) = Some(TRUE)
  THEN [action |-> s_sell, order_type |-> s_enter_short, alert_type |-> s_ENTRY,
        market_position |-> s_short]
  ELSE IF _parse_bool(raw_payload.is_bull_exit) = Some(TRUE)
          \/ _parse_bool(raw_payload.is_bear_exit) = Some(TRUE)
  THEN [f EXCEPT !.alert_type = s_EXIT, !.order_type = s_exit]
  ELSE f

\* lines 626-632: no action, a plot value and a symbol
IsIndicatorAlert(f, symbol, plot_0) ==
  f.action = <<>> /\ plot_0 # None /\ symbol # <<>>

\* lines 634-660: plot_0 is 1 for long, -1 for short, 0 for flat
PlotFallback(f, symbol, plot_0) ==
  IF ~IsIndicatorAlert(f, symbol, plot_0) THEN f
  ELSE IF plot_0 = Some(100000)
  THEN [f EXCEPT !.action = s_buy,
                 !.order_type = IF @ = <<>> THEN s_enter_long ELSE @,
                 !.alert_type = IF @ = s_UNKNOWN THEN s_ENTRY ELSE @]
  ELSE IF plot_0 = Some(0 - 100000)
  THEN [f EXCEPT !.action = s_sell,
                 !.order_type = IF @ = <<>> THEN s_enter_short ELSE @,
                 !.alert_type = IF @ = s_UNKNOWN THEN s_ENTRY ELSE @]
  ELSE IF plot_0 = Some(0)
  THEN [f EXCEPT !.alert_type = IF @ = s_UNKNOWN THEN s_EXIT ELSE @]
  ELSE f

\* lines 686-726: the NormalizedWebhook, given the fields before (f2) and
\* after (f) the plot fallback
NormalizedRecord(raw_payload, f2, f, symbol, plot_0, position_size, market_position0, tp_count, raised0) ==
  LET order_price0 == _parse_float(_get_first_valid(
                        <<raw_payload.order_price, raw_payload.price>>))
  IN  [raised |-> raised0 \/ tp_count.raised,
       symbol |-> symbol,
       action |-> f.action,
       order_type |-> f.order_type,
       alert_type |-> f.alert_type,
       order_price |-> IF IsIndicatorAlert(f2, symbol, plot_0) /\ order_price0 = None
                       THEN _parse_float(raw_payload.close)
                       ELSE order_price0,
       position_size |-> position_size,
       market_position |-> f.market_position,
       prev_market_position |-> LowerTextOf(raw_payload.prev_market_position,
                                            raw_payload.am_prev_market_position),
       is_position_closed |-> position_size = Some(0) /\ market_position0 = s_flat,
       tp_count |-> tp_count.value,
       timestamp |-> IF raw_payload.timestamp.t = "iso"
                     THEN Some([t |-> raw_payload.timestamp.n,
                                aware |-> raw_payload.timestamp.s # <<>>])
                     ELSE None,
       order_id |-> TextOrEmpty(raw_payload.order_id),
       order_comment |-> TextOrEmpty(raw_payload.order_comment)]

\* the NormalizedWebhook built from the payload and the values computed from
\* it: the lowered order type, the detected alert type, the signal type, the
\* market position and the position size
NormalizedFrom(raw_payload, order_type0, alert_type0, signal_type, market_position0, position_size) ==
  LET order_type_raw == IF Truthy(raw_payload.am_order_type)
                        THEN raw_payload.am_order_type ELSE raw_payload.order_type
      order_comment == TextOrEmpty(raw_payload.order_comment)
      raised ==
        \/ Truthy(order_type_raw) /\ order_type_raw.t # "str"
        \/ /\ alert_type0 # s_ENTRY
           /\ \/ Truthy(raw_payload.order_comment) /\ raw_payload.order_comment.t # "str"
              \/ /\ alert_type0 \notin {s_TP1, s_TP2, s_TP3, s_SL} \/ order_comment = <<>>
                 /\ Truthy(raw_payload.order_id) /\ raw_payload.order_id.t # "str"
  IN  Only({Only({NormalizedRecord(raw_payload, f2, PlotFallback(f2, symbol, plot_0),
                                   symbol, plot_0, position_size, market_position0,
                                   tp_count, raised) :
                    f2 \in {BullBearFallback(
                              SignalTypeFallback(
                                RegularFields(raw_payload, order_type0, alert_type0,
                                              market_position0),
                                signal_type),
                              signal_type, raw_payload)}}) :
              symbol \in {Upper(FirstTextField(
                            <<raw_payload.symbol, raw_payload.instrument,
                              raw_payload.ticker>>))},
              plot_0 \in {_parse_float(raw_payload.plot_0)},
              tp_count \in {_parse_int(raw_payload.tp_count)}})

\* the order type of the alert message, else of the payload, lowered
OrderTypeOf(raw_payload) ==
  LET order_type_raw == IF Truthy(raw_payload.am_order_type)
                        THEN raw_payload.am_order_type ELSE raw_payload.order_type
  IN  IF order_type_raw.t = "str" THEN Lower(order_type_raw.s) ELSE <<>>

normalize(raw_payload) ==
  Only({Only({NormalizedFrom(raw_payload, order_type0, alert_type0, signal_type,
                             market_position0, position_size) :
                alert_type0 \in {detect_alert_type_from_data(order_type0,
                                    TextOrEmpty(raw_payload.order_comment),
                                    TextOrEmpty(raw_payload.order_id))}}) :
          order_type0 \in {OrderTypeOf(raw_payload)},
          signal_type \in {LowerTextOf(raw_payload.signal_type,
                                       raw_payload.am_signal_type)},
          market_position0 \in {LowerTextOf(raw_payload.market_position,
                                            raw_payload.am_market_position)},
          position_size \in {_parse_float(_get_first_valid(
                               <<raw_payload.position_size,
                                 raw_payload.am_position_size>>))}})

-----------------------------------------------------------------------------
(* The store: WebhookLog rows in insertion order (timestamps increase),     *)
(* and the per-symbol configuration.  H is the sequence of rows a query     *)
(* reads, cfg the SymbolConfig table.                                       *)

NoGroup == <<>>

LookbackDays == 7

QueryLimit == 100

OandaQueryLimit == 50

Epsilon == 10

DefaultConfig == [tp_count |-> 1, sl_count |-> 1]

\* SymbolConfig.get_config: the configured counts, or the default 1/1
get_config(cfg, user_id, symbol, broker) ==
  IF <<user_id, symbol, broker>> \in DOMAIN cfg
  THEN cfg[<<user_id, symbol, broker>>]
  ELSE DefaultConfig

Reverse(s) == [i \in 1..Len(s) |-> s[Len(s) + 1 - i]]

\* WebhookLog.query.filter_by(trade_group_id=...).order_by(timestamp.asc())
WebhooksOf(H, trade_group_id) ==
  SelectSeq(H, LAMBDA r : r.trade_group_id = trade_group_id)

\* float(str(v)) of a metadata value; None where Python raises ValueError
FloatOfStr(v) ==
  CASE v.t = "num" -> Some(v.n)
    [] v.t = "str" -> FloatOfText(Strip(v.s))
    [] OTHER -> None

LevelName(prefix, count) == prefix \o <<Digits[count + 1]>>

\* one iteration of the loop of get_trade_group_status
WebhookCloses(webhook, tp_count, sl_count) ==
  LET closing_tp == LevelName(s_TP, tp_count)
      closing_sl == IF sl_count > 1 THEN LevelName(s_SL, sl_count) ELSE s_SL
  IN  \/ webhook.position_size_after = Some(0)
      \/ /\ webhook.has_metadata
         /\ \/ FloatOfStr(webhook.meta_position_size) = Some(0)
            \/ webhook.meta_closes_position
      \/ /\ webhook.tp_level # <<>>
         /\ \E tp_level \in {Upper(webhook.tp_level)} :
              \/ tp_level = s_EXIT
              \/ sl_count = 1 /\ tp_level \in {s_SL, s_SL1}
              \/ sl_count > 1 /\ tp_level = closing_sl
              \/ tp_level = closing_tp

\* faulty variant of get_trade_group_status: only the configured levels and
\* EXIT close a group, the observed position size is not looked at
StatusByLevelsOnly(H, cfg, trade_group_id) ==
  Only({LET symbol_config == get_config(cfg, webhooks[1].user_id, webhooks[1].symbol,
                                        webhooks[1].broker)
            closing_sl == IF symbol_config.sl_count > 1
                          THEN LevelName(s_SL, symbol_config.sl_count) ELSE s_SL
        IN  IF Len(webhooks) = 0 THEN "CLOSED"
            ELSE IF \E i \in 1..Len(webhooks) :
                      webhooks[i].tp_level \in
                        {s_EXIT, closing_sl, LevelName(s_TP, symbol_config.tp_count)}
            THEN "CLOSED"
            ELSE "ACTIVE" :
          webhooks \in {WebhooksOf(H, trade_group_id)}})

\* get_trade_group_status on the rows of the group: 'ACTIVE' or 'CLOSED';
\* "AttributeError" when the fallback after the loop calls lower() on a
\* market_position of the metadata that is no string
StatusOf(cfg, webhooks) ==
  LET entry_webhook == webhooks[1]
      symbol_config == get_config(cfg, entry_webhook.user_id, entry_webhook.symbol,
                                  entry_webhook.broker)
      latest == webhooks[Len(webhooks)]
      market_position == IF latest.has_metadata
                         THEN Lower(latest.meta_market_position.s) ELSE <<>>
      size_float == IF latest.has_metadata /\ Truthy(latest.meta_position_size)
                    THEN FloatOfStr(latest.meta_position_size) ELSE None
  IN  IF Len(webhooks) = 0 THEN "CLOSED"
      ELSE IF \E webhook \in {webhooks[i] : i \in 1..Len(webhooks)} :
                WebhookCloses(webhook, symbol_config.tp_count, symbol_config.sl_count)
      THEN "CLOSED"
      ELSE IF latest.has_metadata /\ latest.meta_market_position.t # "str"
      THEN "AttributeError"
      ELSE IF size_float = Some(0) /\ market_position = s_flat THEN "CLOSED"
      ELSE "ACTIVE"

get_trade_group_status(H, cfg, trade_group_id) ==
  Only({StatusOf(cfg, webhooks) : webhooks \in {WebhooksOf(H, trade_group_id)}})

\* the entry price cached on the first row of the group, else its price
_get_group_entry_price(H, trade_group_id) ==
  Only({IF Len(webhooks) = 0 THEN None
        ELSE IF webhooks[1].entry_price # None THEN webhooks[1].entry_price
        ELSE webhooks[1].price : webhooks \in {WebhooksOf(H, trade_group_id)}})

\* f"{symbol}-{DIRECTION}-{utcnow}-{uuid4 hex}"; unique_id is the uuid4 part
_generate_trade_group_id(symbol, direction, clock, unique_id) ==
  <<symbol, Upper(direction), clock, unique_id>>

\* the rows a lookup reads: newest first, at most limit of them
RecentLogs(H, clock, user_id, symbol, direction, limit) ==
  Take(Reverse(SelectSeq(H, LAMBDA r :
         /\ r.user_id = user_id
         /\ r.symbol = symbol
         /\ r.trade_direction = direction
         /\ r.trade_group_id # NoGroup
         /\ r.timestamp >= clock - LookbackDays)), limit)

\* the group ids of the rows in order of first appearance (groups_checked)
GroupsChecked(recent_logs) ==
  Only({Only({[k \in 1..Len(firsts) |-> logs[firsts[k]].trade_group_id] :
                firsts \in {SelectSeq([i \in 1..Len(logs) |-> i],
                              LAMBDA i : \A j \in 1..(i - 1) :
                                 logs[j].trade_group_id # logs[i].trade_group_id)}}) :
          logs \in {recent_logs}})

\* the latest row of a group: its timestamp and its known position size
LatestState(H, trade_group_id) ==
  Only({[trade_group_id |-> trade_group_id,
         latest_position_size |->
            IF latest_log.position_size_after # None THEN latest_log.position_size_after
            ELSE IF latest_log.has_metadata
            THEN FloatOfStr(latest_log.meta_position_size)
            ELSE None,
         latest_timestamp |-> latest_log.timestamp] :
          latest_log \in {Only({webhooks[Len(webhooks)] :
                                  webhooks \in {WebhooksOf(H, trade_group_id)}})}})

\* the first element of a non-empty sequence that minimises measure
FirstMinimising(groups, measure) ==
  groups[CHOOSE i \in 1..Len(groups) :
           /\ \A j \in 1..Len(groups) : measure[i] <= measure[j]
           /\ \A j \in 1..(i - 1) : measure[j] > measure[i]]

\* result of a lookup: the id found (NoGroup for None), or raised with the
\* exception the Python code lets escape
Found(trade_group_id) == [raised |-> FALSE, error |-> "", id |-> trade_group_id]

Raised(error) == [raised |-> TRUE, error |-> error, id |-> NoGroup]

\* lines 732-778: the group chosen among the active ones
ChooseActive(active_groups, position_size_hint, timestamp_hint) ==
  LET size_matches(group) ==
         /\ group.latest_position_size # None
         /\ Abs(group.latest_position_size[1] - position_size_hint[1]) < Epsilon
      delta == [k \in 1..Len(active_groups) |->
                  Abs(timestamp_hint[1].t - active_groups[k].latest_timestamp)]
      age == [k \in 1..Len(active_groups) |-> 0 - active_groups[k].latest_timestamp]
  IN  IF Len(active_groups) = 0 THEN Found(NoGroup)
      ELSE IF Len(active_groups) = 1 THEN Found(active_groups[1].trade_group_id)
      ELSE IF /\ position_size_hint # None
              /\ \E k \in 1..Len(active_groups) : size_matches(active_groups[k])
      THEN Found(SelectSeq(active_groups, size_matches)[1].trade_group_id)
      ELSE IF timestamp_hint # None
      THEN IF timestamp_hint[1].aware THEN Raised("TypeError")
           ELSE Found(FirstMinimising(active_groups, delta).trade_group_id)
      ELSE Found(FirstMinimising(active_groups, age).trade_group_id)

\* faulty variant of _find_active_trade_group: the most recent group of the
\* direction is taken without asking for its status
FindMostRecentGroup(H, cfg, clock, user_id, symbol, direction, position_size_hint, timestamp_hint) ==
  Only({IF Len(recent_logs) = 0 THEN Found(NoGroup)
        ELSE Found(recent_logs[1].trade_group_id) :
          recent_logs \in {RecentLogs(H, clock, user_id, symbol, direction, QueryLimit)}})

_find_active_trade_group(H, cfg, clock, user_id, symbol, direction, position_size_hint, timestamp_hint) ==
  Only({IF \E k \in 1..Len(groups_checked) :
             get_trade_group_status(H, cfg, groups_checked[k]) = "AttributeError"
        THEN Raised("AttributeError")
        ELSE Only({ChooseActive(active_groups, position_size_hint, timestamp_hint) :
                     active_groups \in
                       {[k \in 1..Len(active_ids) |-> LatestState(H, active_ids[k])]}}) :
          groups_checked \in
            {GroupsChecked(RecentLogs(H, clock, user_id, symbol, direction, QueryLimit))},
          active_ids \in
            {SelectSeq(GroupsChecked(RecentLogs(H, clock, user_id, symbol, direction,
                                                QueryLimit)),
                       LAMBDA g : get_trade_group_status(H, cfg, g) = "ACTIVE")}})

\* one iteration of the loop of _is_oanda_trade_closed
OandaWebhookCloses(webhook, tp_count, sl_count) ==
  LET closing_tp == LevelName(s_TP, tp_count)
      closing_sl == IF sl_count > 1 THEN LevelName(s_SL, sl_count) ELSE s_SL
  IN  \/ webhook.has_metadata /\ webhook.meta_closes_position
      \/ webhook.position_size_after = Some(0)
      \/ webhook.has_metadata /\ FloatOfStr(webhook.meta_position_size) = Some(0)
      \/ /\ webhook.tp_level # <<>>
         /\ \E tp_level \in {Upper(webhook.tp_level)} :
              \/ tp_level = s_EXIT
              \/ sl_count = 1 /\ tp_level \in {s_SL, s_SL1}
              \/ sl_count > 1 /\ tp_level = closing_sl
              \/ tp_level = closing_tp

_is_oanda_trade_closed(H, cfg, trade_group_id) ==
  \E webhooks \in {WebhooksOf(H, trade_group_id)} :
     LET entry_webhook == webhooks[1]
         symbol_config == get_config(cfg, entry_webhook.user_id, entry_webhook.symbol,
                                     entry_webhook.broker)
     IN  IF Len(webhooks) = 0 THEN TRUE
         ELSE \E webhook \in {webhooks[i] : i \in 1..Len(webhooks)} :
                OandaWebhookCloses(webhook, symbol_config.tp_count,
                                   symbol_config.sl_count)

\* the most recent group of the direction that is not closed, or None
_find_active_trade_group_for_oanda(H, cfg, clock, user_id, symbol, direction) ==
  Only({IF Len(open_ids) = 0 THEN NoGroup ELSE open_ids[1] :
          open_ids \in
            {SelectSeq(GroupsChecked(RecentLogs(H, clock, user_id, symbol, direction,
                                                OandaQueryLimit)),
                       LAMBDA g : ~_is_oanda_trade_closed(H, cfg, g))}})

-----------------------------------------------------------------------------
(* TradeGroupResult and the two correlators                                *)

TradeGroupResult(trade_group_id, trade_direction, is_new_group, entry_price) ==
  [raised |-> FALSE, error |-> "",
   trade_group_id |-> trade_group_id,
   trade_direction |-> trade_direction,
   is_new_group |-> is_new_group,
   entry_price |-> entry_price]

\* the call did not return: the exception escapes to _process_webhook
RaisedResult(error) ==
  [raised |-> TRUE, error |-> error,
   trade_group_id |-> NoGroup, trade_direction |-> None,
   is_new_group |-> FALSE, entry_price |-> None]

ExitAlertTypes == {s_TP1, s_TP2, s_TP3, s_TP4, s_TP5, s_SL, s_PARTIAL, s_EXIT}

\* lines 145-209: [trade_direction, is_entry, is_exit] of a normalized alert
ClassifyFields(normalized) ==
  LET order_type == normalized.order_type
      alert_type == normalized.alert_type
      market_position == normalized.market_position
      prev_market_position == normalized.prev_market_position
      action == normalized.action
      direction0 == IF Contains(s_long, order_type) THEN s_long
                    ELSE IF Contains(s_short, order_type) THEN s_short
                    ELSE None
      entry0 == alert_type = s_ENTRY
      exit0 == ~entry0 /\ alert_type \in ExitAlertTypes
      entry1 == entry0 \/ (~exit0 /\ (Contains(s_enter_, order_type)
                                       \/ Contains(s_entry_, order_type)))
      exit1 == exit0 \/ (~entry1 /\ (Contains(s_reduce_, order_type)
                                       \/ Contains(s_exit_, order_type)))
      transition ==
        IF prev_market_position = <<>> \/ entry1 \/ exit1 THEN "none"
        ELSE IF prev_market_position = s_flat /\ market_position \in {s_long, s_short}
        THEN "entry"
        ELSE IF prev_market_position \in {s_long, s_short} /\ market_position = s_flat
        THEN "exit"
        ELSE IF prev_market_position = s_long /\ market_position = s_short
        THEN "close_long"
        ELSE IF prev_market_position = s_short /\ market_position = s_long
        THEN "close_short"
        ELSE "none"
      entry2 == entry1 \/ transition = "entry"
      exit2 == exit1 \/ transition \in {"exit", "close_long", "close_short"}
      direction2 == CASE transition = "entry" -> market_position
                      [] transition = "exit" -> prev_market_position
                      [] transition = "close_long" -> s_long
                      [] transition = "close_short" -> s_short
                      [] OTHER -> direction0
      inferred == IF direction2 # None THEN "none"
                  ELSE IF market_position = s_long THEN "long"
                  ELSE IF market_position = s_short THEN "short"
                  ELSE IF action = s_buy /\ market_position \in {<<>>, s_flat}
                  THEN "buy"
                  ELSE IF action = s_sell /\ market_position \in {<<>>, s_flat}
                  THEN "sell"
                  ELSE "none"
  IN  [trade_direction |-> CASE inferred \in {"long", "buy"} -> s_long
                             [] inferred \in {"short", "sell"} -> s_short
                             [] OTHER -> direction2,
       is_entry |-> entry2 \/ inferred \in {"buy", "sell"},
       is_exit |-> exit2]

Classify(normalized) == Only({ClassifyFields(n) : n \in {normalized}})

\* faulty variant of determine_trade_group_from_normalized: an entry joins
\* the group that is active for its symbol and direction
DetermineMergingEntries(H, cfg, clock, unique_id, user_id, normalized) ==
  Only({Only({IF c.trade_direction = None \/ ~(c.is_entry \/ c.is_exit)
              THEN TradeGroupResult(NoGroup, None, FALSE, None)
              ELSE IF found.raised THEN RaisedResult(found.error)
              ELSE IF found.id # NoGroup
              THEN TradeGroupResult(found.id, c.trade_direction, c.is_entry,
                                    IF c.is_entry THEN normalized.order_price
                                    ELSE _get_group_entry_price(H, found.id))
              ELSE TradeGroupResult(
                     _generate_trade_group_id(normalized.symbol, c.trade_direction,
                                              clock, unique_id),
                     c.trade_direction, c.is_entry,
                     IF c.is_entry THEN normalized.order_price ELSE None) :
                found \in {_find_active_trade_group(H, cfg, clock, user_id,
                             normalized.symbol, c.trade_direction,
                             normalized.position_size, normalized.timestamp)}}) :
          c \in {Classify(normalized)}})

\* lines 226-276: the exit path, given the lookups in the resolved direction,
\* in 'long' and in 'short'
ExitResult(H, clock, unique_id, symbol, trade_direction, first, in_long, in_short) ==
  IF first.raised THEN RaisedResult(first.error)
  ELSE IF first.id # NoGroup
  THEN TradeGroupResult(first.id, trade_direction, FALSE,
                        _get_group_entry_price(H, first.id))
  ELSE IF in_long.raised THEN RaisedResult(in_long.error)
  ELSE IF in_long.id # NoGroup
  THEN TradeGroupResult(in_long.id, s_long, FALSE,
                        _get_group_entry_price(H, in_long.id))
  ELSE IF in_short.raised THEN RaisedResult(in_short.error)
  ELSE IF in_short.id # NoGroup
  THEN TradeGroupResult(in_short.id, s_short, FALSE,
                        _get_group_entry_price(H, in_short.id))
  ELSE TradeGroupResult(
         _generate_trade_group_id(symbol, trade_direction, clock, unique_id),
         trade_direction, FALSE, None)

\* determine_trade_group_from_normalized once the alert is classified
DetermineClassified(H, cfg, clock, unique_id, user_id, normalized, c) ==
  LET symbol == normalized.symbol
      trade_direction == c.trade_direction
      find(direction) ==
        _find_active_trade_group(H, cfg, clock, user_id, symbol, direction,
                                 normalized.position_size, normalized.timestamp)
  IN  IF trade_direction = None
      THEN TradeGroupResult(NoGroup, None, FALSE, None)
      ELSE IF c.is_entry
      THEN TradeGroupResult(
             _generate_trade_group_id(symbol, trade_direction, clock, unique_id),
             trade_direction, TRUE, normalized.order_price)
      ELSE IF c.is_exit
      THEN Only({ExitResult(H, clock, unique_id, symbol, trade_direction, first,
                            in_long, in_short) :
                   first \in {find(trade_direction)},
                   in_long \in {find(s_long)},
                   in_short \in {find(s_short)}})
      ELSE TradeGroupResult(NoGroup, None, FALSE, None)

determine_trade_group_from_normalized(H, cfg, clock, unique_id, user_id, normalized) ==
  Only({DetermineClassified(H, cfg, clock, unique_id, user_id, n, c) :
          n \in {normalized}, c \in {Classify(normalized)}})

Opposite(direction) == IF direction = s_long THEN s_short ELSE s_long

\* lines 62-94 given the lookups in the signal's direction and the opposite
OandaExitResult(H, clock, unique_id, symbol, direction, same, other) ==
      IF same # NoGroup
      THEN TradeGroupResult(same, direction, FALSE, _get_group_entry_price(H, same))
      ELSE IF other # NoGroup
      THEN TradeGroupResult(other, Opposite(direction), FALSE,
                            _get_group_entry_price(H, other))
      ELSE TradeGroupResult(
             _generate_trade_group_id(symbol, direction, clock, unique_id),
             direction, FALSE, None)

determine_trade_group_for_oanda_signal(H, cfg, clock, unique_id, user_id, symbol, direction, is_entry, closes_position, entry_price) ==
      IF is_entry
      THEN TradeGroupResult(
             _generate_trade_group_id(symbol, direction, clock, unique_id),
             direction, TRUE, entry_price)
      ELSE Only({OandaExitResult(H, clock, unique_id, symbol, direction, same, other) :
                   same \in {_find_active_trade_group_for_oanda(H, cfg, clock, user_id,
                               symbol, direction)},
                   other \in {_find_active_trade_group_for_oanda(H, cfg, clock, user_id,
                                symbol, Opposite(direction))}})

-----------------------------------------------------------------------------
(* The parsers of _process_webhook                                          *)

\* float(val) of the generic parser: None where it raises
FloatOf(v) ==
  CASE v.t = "num" -> Some(v.n)
    [] v.t = "str" -> FloatOfText(v.s)
    [] v.t = "bool" -> Some(v.n * 100000)
    [] OTHER -> None

\* the first field that is truthy and parses
FirstFloatField(fields) ==
  LET ok == {i \in 1..Len(fields) : Truthy(fields[i]) /\ FloatOf(fields[i]) # None}
  IN  IF ok = {} THEN None
      ELSE FloatOf(fields[CHOOSE i \in ok : \A j \in ok : i <= j])

\* TradingViewAlertParser._parse_json: the params the log entry reads
_parse_json(data) ==
  [symbol |-> Upper(FirstTextField(<<data.symbol, data.instrument, data.ticker>>)),
   price |-> FirstFloatField(<<data.order_price, data.price, data.entry_price>>),
   has_metadata |-> TRUE,
   meta_position_size |-> data.position_size,
   meta_market_position |-> data.market_position,
   meta_closes_position |-> FALSE]

\* str(value).lower() of a top-level field whose default is ''
LowerStr(v) ==
  IF v.t = "str" THEN Lower(v.s) ELSE IF v.t = "null" THEN <<>> ELSE s_other

OandaSignalTypes ==
  {s_bull_entry, s_bear_entry, s_tp1, s_tp2, s_tp3, s_sl, s_sl1, s_sl2, s_sl3,
   s_stop_loss, s_stoploss, s_exit, s_close}

can_parse(raw_payload) == LowerStr(raw_payload.signal_type) \in OandaSignalTypes

\* OandaIndicatorParser._parse_float
OandaParseFloat(value) ==
  CASE value.t = "str" -> FloatOfText(value.s)
    [] value.t = "num" -> Some(value.n)
    [] value.t = "bool" -> Some(value.n * 100000)
    [] OTHER -> None

\* OandaIndicatorParser._parse_int with default 1
OandaParseInt(value) ==
  LET f == OandaParseFloat(value)
  IN  IF f = None THEN 1
      ELSE IF f[1] >= 0 THEN f[1] \div 100000 ELSE 0 - ((0 - f[1]) \div 100000)

_determine_tp_level(signal_type) ==
  CASE signal_type \in {s_tp1, s_tp2, s_tp3, s_sl1, s_sl2, s_sl3} -> Upper(signal_type)
    [] signal_type \in {s_sl, s_stop_loss, s_stoploss} -> s_SL
    [] signal_type \in {s_exit, s_close} -> s_EXIT
    [] OTHER -> None

_should_close_position(tp_level, tp_count) ==
  \/ tp_level = s_EXIT
  \/ tp_level \in {s_SL, s_SL1, s_SL2, s_SL3}
  \/ tp_level = s_TP1 /\ tp_count <= 1
  \/ tp_level = s_TP2 /\ tp_count <= 2
  \/ tp_level = s_TP3 /\ tp_count <= 3

FirstParsed(fields) ==
  LET ok == {i \in 1..Len(fields) : OandaParseFloat(fields[i]) # None}
  IN  IF ok = {} THEN None
      ELSE OandaParseFloat(fields[CHOOSE i \in ok : \A j \in ok : i <= j])

\* OandaIndicatorParser.parse, for a payload that can_parse accepts
parse(raw_payload) ==
  LET symbol_value == IF Truthy(raw_payload.symbol) THEN raw_payload.symbol
                      ELSE raw_payload.ticker
      signal_type == LowerStr(raw_payload.signal_type)
      is_entry == signal_type \in {s_bull_entry, s_bear_entry}
      market_position == LowerStr(raw_payload.market_position)
      direction == IF signal_type = s_bull_entry THEN s_long
                   ELSE IF signal_type = s_bear_entry THEN s_short
                   ELSE IF market_position = s_short THEN s_short
                   ELSE s_long
      tp_level == _determine_tp_level(signal_type)
      tp_count == OandaParseInt(raw_payload.tp_count)
  IN  [symbol |-> IF symbol_value.t = "str" THEN Upper(symbol_value.s)
                  ELSE IF symbol_value.t = "null" THEN <<>> ELSE s_other,
       direction |-> direction,
       is_entry |-> is_entry,
       is_exit |-> ~is_entry,
       entry_price |-> FirstParsed(<<raw_payload.entry_price, raw_payload.order_price,
                                     raw_payload.close>>),
       exit_price |-> IF is_entry THEN OandaParseFloat(raw_payload.exit_price)
                      ELSE FirstParsed(<<raw_payload.exit_price, raw_payload.order_price,
                                         raw_payload.close>>),
       tp_count |-> tp_count,
       tp_level |-> tp_level,
       closes_position |-> _should_close_position(tp_level, tp_count)]

\* OandaIndicatorParser.to_normalized_params: the params the log entry reads
to_normalized_params(parsed) ==
  [symbol |-> parsed.symbol,
   price |-> IF parsed.is_exit THEN parsed.exit_price ELSE parsed.entry_price,
   has_metadata |-> TRUE,
   meta_position_size |-> IF parsed.closes_position THEN Num(0) ELSE Null,
   meta_market_position |-> Str(parsed.direction),
   meta_closes_position |-> parsed.closes_position]

-----------------------------------------------------------------------------
(* _create_log_entry and _process_webhook.  The result carries the          *)
(* TradeGroupResult and the WebhookLog row that db.session.add receives;    *)
(* raised means an exception escaped and no row is written.                 *)

\* lines 301-428: the row built from the normalized alert and the result of
\* the correlator
LogEntryOf(clock, user_id, broker, params, original_symbol, oanda_signal, raw_payload, normalized, result) ==
  LET is_oanda == oanda_signal # None
      signal == oanda_signal[1]
      tp_level == IF is_oanda THEN signal.tp_level
                  ELSE IF normalized.alert_type # s_UNKNOWN THEN normalized.alert_type
                  ELSE None
      position_size_after ==
        IF is_oanda THEN (IF signal.closes_position THEN Some(0) ELSE None)
        ELSE normalized.position_size
      entry_price ==
        IF is_oanda
        THEN (IF signal.is_entry THEN signal.entry_price ELSE result.entry_price)
        ELSE IF result.is_new_group THEN normalized.order_price
        ELSE result.entry_price
  IN  [raised |-> result.raised,
       error |-> result.error,
       result |-> result,
       log |-> [user_id |-> user_id,
                timestamp |-> clock,
                raw_payload |-> raw_payload,
                broker |-> broker,
                symbol |-> params.symbol,
                original_symbol |-> original_symbol,
                price |-> params.price,
                trade_group_id |-> result.trade_group_id,
                trade_direction |-> result.trade_direction,
                tp_level |-> tp_level,
                position_size_after |-> position_size_after,
                entry_price |-> entry_price,
                has_metadata |-> params.has_metadata,
                meta_position_size |-> params.meta_position_size,
                meta_market_position |-> params.meta_market_position,
                meta_closes_position |-> params.meta_closes_position]]

\* lines 279-300: the correlator that _create_log_entry calls
GroupFor(H, cfg, clock, unique_id, user_id, symbol, oanda_signal, normalized) ==
  IF oanda_signal # None
  THEN determine_trade_group_for_oanda_signal(H, cfg, clock, unique_id, user_id,
         symbol, oanda_signal[1].direction, oanda_signal[1].is_entry,
         oanda_signal[1].closes_position, oanda_signal[1].entry_price)
  ELSE IF normalized.raised THEN RaisedResult("AttributeError")
  ELSE determine_trade_group_from_normalized(H, cfg, clock, unique_id, user_id,
                                             normalized)

_create_log_entry(H, cfg, clock, unique_id, user_id, broker, params, original_symbol, oanda_signal, raw_payload) ==
  Only({Only({LogEntryOf(clock, user_id, broker, p, original_symbol, oanda_signal,
                         raw_payload, normalized, result) :
                result \in {GroupFor(H, cfg, clock, unique_id, user_id, p.symbol,
                                     oanda_signal, normalized)}}) :
          p \in {params}, normalized \in {normalize(raw_payload)}})

\* steps 4 and 5 of _process_webhook: the parsed signal (Oanda only) and the
\* params before the symbol is converted
ParsedRequest(broker, raw_payload) ==
  Only({[oanda_parsed_signal |-> oanda_parsed_signal,
         params |-> IF oanda_parsed_signal # None
                    THEN to_normalized_params(oanda_parsed_signal[1])
                    ELSE _parse_json(raw_payload)] :
          oanda_parsed_signal \in {IF broker = "oanda" /\ can_parse(raw_payload)
                                   THEN Some(parse(raw_payload)) ELSE None}})

\* steps 4, 5 and 7 of _process_webhook for an authenticated request
_process_webhook(H, cfg, clock, unique_id, user_id, broker, raw_payload) ==
  Only({_create_log_entry(H, cfg, clock, unique_id, user_id, broker,
                          [parsed.params EXCEPT
                             !.symbol = normalize_symbol(parsed.params.symbol, broker)],
                          parsed.params.symbol, parsed.oanda_parsed_signal,
                          raw_payload) :
          parsed \in {ParsedRequest(broker, raw_payload)}})

\* lines 869 and 879: the difference above which a value has changed, 0.0001
ChangeEpsilon == 10

\* lines 856-864: the value of a row, the current field before the legacy one
PreviousValue(current_field, legacy_field) ==
  IF current_field # None THEN current_field ELSE legacy_field

\* lines 866-884: the test on one field
FieldChanged(current, previous) ==
  IF current # None /\ previous # None
  THEN Abs(current[1] - previous[1]) > ChangeEpsilon
  ELSE current # None /\ previous = None

\* lines 856-884 on previous_log, the latest row of the group
ChangesSince(previous_log, current_sl, current_tp) ==
  [sl_changed |-> FieldChanged(current_sl,
                    PreviousValue(previous_log.current_stop_loss,
                                  previous_log.stop_loss)),
   tp_changed |-> FieldChanged(current_tp,
                    PreviousValue(previous_log.current_take_profit,
                                  previous_log.take_profit))]

\* TradeGroupingService.detect_sltp_changes on the table H
detect_sltp_changes(H, trade_group_id, current_sl, current_tp) ==
  Only({IF group = <<>> THEN [sl_changed |-> FALSE, tp_changed |-> FALSE]
        ELSE ChangesSince(group[Len(group)], current_sl, current_tp) :
          group \in {WebhooksOf(H, trade_group_id)}})

\* whether the result carries an id minted by this call
Minted(result, unique_id) ==
  result.trade_group_id # NoGroup /\ result.trade_group_id[4] = unique_id

-----------------------------------------------------------------------------
(* State machine                                                            *)

MaxHist == 3

MaxTime == 9

Workers == {1, 2}

Idle == [busy |-> FALSE]

\* a pause that leaves a row written at the start of the lookback window
\* inside it, and any earlier row outside
AdvanceDays == LookbackDays - 1

InitWith(configs) ==
  /\ history = <<>>
  /\ now = 0
  /\ nextId = 1
  /\ config \in configs
  /\ inflight = [w \in Workers |-> Idle]
  /\ failed = FALSE
  /\ arg = <<>>
  /\ ret = <<>>

\* one request handled from start to end: _process_webhook
Process(rq) ==
  /\ Len(history) < MaxHist
  /\ now < MaxTime
  /\ \E e \in {_process_webhook(history, config, now, nextId, rq.user_id, rq.broker,
                                 rq.raw_payload)} :
        /\ history' = IF e.raised THEN history ELSE Append(history, e.log)
        /\ failed' = e.raised
        /\ nextId' = IF Minted(e.result, nextId) THEN nextId + 1 ELSE nextId
        /\ now' = IF e.raised THEN now ELSE now + 1
  /\ UNCHANGED <<config, inflight, arg, ret>>

\* a worker reads the store and decides; the row is not yet written
Begin(w, rq) ==
  /\ ~inflight[w].busy
  /\ Len(history) + Cardinality({v \in Workers : inflight[v].busy}) < MaxHist
  /\ \E e \in {_process_webhook(history, config, now, nextId, rq.user_id, rq.broker,
                                 rq.raw_payload)} :
        /\ inflight' = [inflight EXCEPT ![w] = [busy |-> TRUE, entry |-> e]]
        /\ nextId' = IF Minted(e.result, nextId) THEN nextId + 1 ELSE nextId
  /\ UNCHANGED <<history, now, config, failed, arg, ret>>

\* variant of Finish that reads and decides again when it writes, as if the
\* read-decide-append sequence were one transaction
FinishInOneTransaction(w) ==
  /\ inflight[w].busy
  /\ now < MaxTime
  /\ \E row \in {inflight[w].entry.log} :
      \E e \in {_process_webhook(history, config, now, nextId, row.user_id,
                                  row.broker, row.raw_payload)} :
        /\ history' = IF e.raised THEN history ELSE Append(history, e.log)
        /\ failed' = e.raised
        /\ now' = IF e.raised THEN now ELSE now + 1
        /\ nextId' = IF Minted(e.result, nextId) THEN nextId + 1 ELSE nextId
  /\ inflight' = [inflight EXCEPT ![w] = Idle]
  /\ UNCHANGED <<config, arg, ret>>

\* db.session.add / commit of the row the worker built, or the 500 response
Finish(w) ==
  /\ inflight[w].busy
  /\ now < MaxTime
  /\ LET e == inflight[w].entry
     IN  /\ history' = IF e.raised THEN history
                       ELSE Append(history, [e.log EXCEPT !.timestamp = now])
         /\ failed' = e.raised
         /\ now' = IF e.raised THEN now ELSE now + 1
  /\ inflight' = [inflight EXCEPT ![w] = Idle]
  /\ UNCHANGED <<config, nextId, arg, ret>>

\* time passes between requests
Advance ==
  /\ now + AdvanceDays <= MaxTime
  /\ now' = now + AdvanceDays
  /\ UNCHANGED <<history, nextId, config, inflight, failed, arg, ret>>

-----------------------------------------------------------------------------
(* Alerts and configurations the model is run on                            *)

s_100 == <<"1","0","0">>
s_110 == <<"1","1","0">>
s_200 == <<"2","0","0">>

\* a TradingView strategy alert: the order type comes in the alert message
StrategyAlert(ticker, action, order_type, order_comment, position_size, market_position, order_price) ==
  [EmptyPayload EXCEPT !.ticker = Str(ticker),
                       !.action = Str(action),
                       !.am_order_type = Str(order_type),
                       !.order_comment = order_comment,
                       !.position_size = position_size,
                       !.market_position = market_position,
                       !.order_price = Str(order_price)]

Request(user_id, broker, raw_payload) ==
  [user_id |-> user_id, broker |-> broker, raw_payload |-> raw_payload]

One == Pow10(5)

EntryLong ==
  StrategyAlert(s_BTC_USDT, s_buy, s_enter_long, Null, Num(One), Str(s_long), s_100)

EntryLongNoPosition ==
  StrategyAlert(s_BTC_USDT, s_buy, s_enter_long, Null, Num(One), Null, s_100)

Tp1Long ==
  StrategyAlert(s_BTC_USDT, s_sell, s_reduce_long, Str(s_TP1), Num(50000), Str(s_long),
                s_110)

Tp3Long ==
  StrategyAlert(s_BTC_USDT, s_sell, s_reduce_long, Str(s_TP3), Num(50000), Str(s_long),
                s_110)

SlLong ==
  StrategyAlert(s_BTC_USDT, s_sell, s_exit_long, Str(s_SL), Null, Str(s_long), s_110)

PartialZeroLong ==
  StrategyAlert(s_BTC_USDT, s_sell, s_reduce_long, Null, Num(0), Str(s_flat), s_110)

ExitLong ==
  StrategyAlert(s_BTC_USDT, s_sell, s_exit_long, Null, Null, Str(s_long), s_110)

BtcKey == <<1, s_BTC_USDT, "blofin">>

\* the SymbolConfig tables: no row, or one row with counts in 1..3
ConfigsFor(key) ==
  {<<>>} \cup {[k \in {key} |-> [tp_count |-> t, sl_count |-> sl]] :
                 t \in 1..3, sl \in 1..3}

Alerts ==
  {Request(1, "blofin", a) :
     a \in {EntryLong, EntryLongNoPosition, Tp1Long, Tp3Long, SlLong,
            PartialZeroLong, ExitLong}}

Init == InitWith(ConfigsFor(BtcKey))

Next ==
  \/ \E rq \in Alerts : Process(rq)
  \/ Advance

Spec == Init /\ [][Next]_vars

\* the same alerts with the ticker as TradingView sends it
RawEntryLong ==
  StrategyAlert(s_BTCUSDT, s_buy, s_enter_long, Null, Num(One), Str(s_long), s_100)

RawTp1Long ==
  StrategyAlert(s_BTCUSDT, s_sell, s_reduce_long, Str(s_TP1), Num(50000), Str(s_long),
                s_110)

EntryShort ==
  StrategyAlert(s_BTC_USDT, s_sell, s_enter_short, Null, Num(One), Str(s_short), s_100)

\* a TP1 alert that names no direction: no order type, action or position
Tp1NoDirection ==
  [EmptyPayload EXCEPT !.ticker = Str(s_BTC_USDT),
                       !.order_comment = Str(s_TP1),
                       !.order_price = Str(s_110)]

\* a TP1 alert whose only hint of a direction is its action
Tp1SellOnly ==
  [EmptyPayload EXCEPT !.ticker = Str(s_BTC_USDT),
                       !.action = Str(s_sell),
                       !.order_comment = Str(s_TP1),
                       !.order_price = Str(s_110)]

\* an alert that is neither an entry nor an exit, for a long position
UnknownLong ==
  StrategyAlert(s_BTC_USDT, s_buy, s_market, Null, Null, Str(s_long), s_100)

PipelineAlerts ==
  {Request(1, "blofin", a) :
     a \in {EntryLong, Tp1Long, RawEntryLong, RawTp1Long, EntryShort,
            Tp1NoDirection, Tp1SellOnly, UnknownLong}}

InitPipeline == InitWith({<<>>})

NextPipeline ==
  \/ \E rq \in PipelineAlerts : Process(rq)
  \/ Advance

SpecPipeline == InitPipeline /\ [][NextPipeline]_vars

\* pyramided entries and the exits that have to be told apart
EntryLongTwo ==
  StrategyAlert(s_BTC_USDT, s_buy, s_enter_long, Null, Num(2 * One), Str(s_long), s_200)

Reduce(position_size, timestamp) ==
  [StrategyAlert(s_BTC_USDT, s_sell, s_reduce_long, Null, position_size, Str(s_long),
                 s_110)
     EXCEPT !.timestamp = timestamp]

PyramidAlerts ==
  {Request(1, "blofin", a) :
     a \in {EntryLong, EntryLongTwo,
            Reduce(Num(2 * One), Null),
            Reduce(Num(One + 5), Iso(1, FALSE)),
            Reduce(Num(7 * One), Iso(0, FALSE)),
            Reduce(Num(7 * One), Iso(0, TRUE)),
            Reduce(Null, Null)}}

NextPyramid ==
  \/ \E rq \in PyramidAlerts : Process(rq)
  \/ Advance

SpecPyramid == InitPipeline /\ [][NextPyramid]_vars

\* requests handled by two workers with no serialization
RaceAlerts ==
  {Request(1, "blofin", a) : a \in {EntryLong, Tp1Long, ExitLong}}

NextConcurrent ==
  \/ \E w \in Workers : \E rq \in RaceAlerts : Begin(w, rq)
  \/ \E w \in Workers : Finish(w)

SpecConcurrent == InitPipeline /\ [][NextConcurrent]_vars

\* reversals: the position goes from long to short in one alert.  The
\* indicator alert carries only the positions; the strategy alert is the
\* order that opens the short position
ReversalIndicator ==
  [EmptyPayload EXCEPT !.ticker = Str(s_BTC_USDT),
                       !.action = Str(s_sell),
                       !.market_position = Str(s_short),
                       !.prev_market_position = Str(s_long),
                       !.order_price = Str(s_110)]

ReversalStrategy ==
  [StrategyAlert(s_BTC_USDT, s_sell, s_enter_short, Null, Num(One), Str(s_short), s_110)
     EXCEPT !.prev_market_position = Str(s_long)]

ReversalAlerts ==
  {Request(1, "blofin", a) :
     a \in {EntryLong, EntryShort, ExitLong, ReversalIndicator, ReversalStrategy}}

NextReversal ==
  \/ \E rq \in ReversalAlerts : Process(rq)
  \/ Advance

SpecReversal == InitPipeline /\ [][NextReversal]_vars

\* signals of the Oanda indicator for EUR_USD; tp_count is what the payload
\* carries (Null for none)
OandaSignal(signal_type, tp_count) ==
  [EmptyPayload EXCEPT !.symbol = Str(s_EUR_USD),
                       !.signal_type = Str(signal_type),
                       !.tp_count = tp_count,
                       !.entry_price = Num(110000),
                       !.close = Num(120000)]

OandaKey == <<1, s_EUR_USD, "oanda">>

OandaAlerts ==
  {Request(1, "oanda", a) :
     a \in {OandaSignal(s_bull_entry, Num(3 * One)), OandaSignal(s_bear_entry, Num(3 * One)),
            OandaSignal(s_tp1, Num(3 * One)), OandaSignal(s_tp1, Null),
            OandaSignal(s_tp3, Num(3 * One)), OandaSignal(s_sl1, Num(3 * One)),
            OandaSignal(s_sl3, Num(3 * One)), OandaSignal(s_exit, Num(3 * One))}}

InitOanda == InitWith(ConfigsFor(OandaKey))

NextOanda ==
  \/ \E rq \in OandaAlerts : Process(rq)
  \/ Advance

SpecOanda == InitOanda /\ [][NextOanda]_vars

\* alerts for EUR_USD of two users on both webhook routes: strategy alerts,
\* which the generic correlator groups on either route, and indicator
\* signals, which the Oanda path groups
BrokerAlerts ==
  {Request(u, b, a) :
     u \in {1, 2}, b \in {"blofin", "oanda"},
     a \in {[EntryLong EXCEPT !.ticker = Str(s_EUR_USD)],
            [Tp1Long EXCEPT !.ticker = Str(s_EUR_USD)],
            [EntryShort EXCEPT !.ticker = Str(s_EUR_USD)]}}
    \cup {Request(u, "oanda", a) :
            u \in {1, 2},
            a \in {OandaSignal(s_bull_entry, Num(3 * One)),
                   OandaSignal(s_tp1, Num(3 * One))}}

NextBrokers ==
  \/ \E rq \in BrokerAlerts : Process(rq)
  \/ Advance

SpecBrokers == InitPipeline /\ [][NextBrokers]_vars

s_limit == <<"l","i","m","i","t">>
s_lmt == <<"l","m","t">>
s_trailing == <<"t","r","a","i","l","i","n","g">>

\* tradingview.py lines 152-162: the quantity _parse_json reads, 0 when no
\* field carries one
ParamsQuantity(data) ==
  LET first == IF Truthy(data.quantity) /\ FloatOf(data.quantity) # None
               THEN FloatOf(data.quantity) ELSE Some(0)
  IN  IF IsFinite(first) /\ first[1] <= 0
           /\ Truthy(data.order_contracts) /\ FloatOf(data.order_contracts) # None
      THEN FloatOf(data.order_contracts)
      ELSE first

\* validate_params on the params that _parse_json reads from a payload with
\* neither signal_type nor plot fields
validate_params(data) ==
  /\ _parse_json(data).symbol # <<>>
  /\ Lower(FirstTextField(<<data.action, data.side, data.order_action>>))
       \in {s_buy, s_sell}
  /\ \E quantity \in {ParamsQuantity(data)} :
        ~(IsFinite(quantity) /\ quantity[1] <= 0)
  /\ LowerStr(data.order_type) \in {s_limit, s_lmt} => _parse_json(data).price # None
  /\ LowerStr(data.order_type) # s_trailing

\* reprocess_webhook_log, lines 117-185: the record parsed, normalized and
\* correlated again by the generic path against the table as it is now, and
\* the row that is committed in its place
reprocess_webhook_log(H, cfg, clock, unique_id, log) ==
  Only({Only({[e EXCEPT !.log.timestamp = log.timestamp] :
                e \in {_create_log_entry(H, cfg, clock, unique_id, log.user_id,
                         log.broker,
                         [params EXCEPT
                            !.symbol = normalize_symbol(params.symbol, log.broker)],
                         params.symbol, None, log.raw_payload)}}) :
          params \in {_parse_json(log.raw_payload)}})

\* the most ids the model mints
MaxMinted == 4

\* POST /<log_id>/reprocess by the owner of record i; a 400 or 500 response
\* leaves the table as it is
Reprocess(i) ==
  /\ i \in 1..Len(history)
  /\ nextId <= MaxMinted
  /\ validate_params(history[i].raw_payload)
  /\ \E e \in {reprocess_webhook_log(history, config, now, nextId, history[i])} :
        /\ ~e.raised
        /\ history' = [history EXCEPT ![i] = e.log]
        /\ nextId' = IF Minted(e.result, nextId) THEN nextId + 1 ELSE nextId
  /\ UNCHANGED <<now, config, inflight, failed, arg, ret>>

\* strategy alerts with the quantity that validate_params asks for, and an
\* entry without one
ReprocessAlerts ==
  {Request(1, "blofin", a) :
     a \in {[EntryLong EXCEPT !.quantity = Num(One)],
            [Tp1Long EXCEPT !.quantity = Num(One)],
            [ExitLong EXCEPT !.order_contracts = Num(One)],
            EntryLong}}

NextReprocess ==
  \/ \E rq \in ReprocessAlerts : Process(rq)
  \/ \E i \in 1..MaxHist : Reprocess(i)
  \/ Advance

SpecReprocess == InitPipeline /\ [][NextReprocess]_vars

\* one call of WebhookNormalizer.normalize
Normalize ==
  /\ ret = <<>>
  /\ ret' = normalize(arg)
  /\ UNCHANGED <<history, now, nextId, config, inflight, failed, arg>>

s_placeholder == s_braces \o <<"s","t","r","a","t","e","g","y","}","}">>
s_0 == <<"0">>

\* values of every JSON type for one field of the payload
TypedValues ==
  {Str(<<>>), Str(s_0), Str(s_inf), Str(s_nan), Str(<<"x">>), Num(0), Num(5 * One),
   Bool(TRUE), Bool(FALSE)}

TypedFields ==
  {"symbol", "action", "order_type", "am_order_type", "order_comment", "order_id",
   "position_size", "am_position_size", "market_position", "prev_market_position",
   "order_price", "price", "timestamp", "signal_type", "tp_count", "is_bull",
   "plot_0", "close"}

\* payloads with one field set; with an entry order type besides; payloads
\* that vary the size and the position; payloads that vary where the action
\* and the order type are found and which indicator fields come with them
NormalizeInputs ==
  {EmptyPayload}
  \cup {[EmptyPayload EXCEPT ![f] = v] : f \in TypedFields, v \in TypedValues}
  \cup {[EmptyPayload EXCEPT !.am_order_type = Str(s_enter_long), ![f] = Num(5 * One)] :
          f \in {"order_comment", "order_id"}}
  \cup {[EmptyPayload EXCEPT !.position_size = ps, !.market_position = mp,
                             !.signal_type = st, !.is_bull = bull] :
          ps \in {Null, Str(s_0), Num(0), Num(One), Str(s_nan)},
          mp \in {Null, Str(s_flat), Str(Upper(s_flat)), Str(s_long)},
          st \in {Null, Str(s_long), Str(s_tp1)},
          bull \in {Null, Bool(TRUE)}}
  \cup {[EmptyPayload EXCEPT !.ticker = Str(s_BTC_USDT),
                             !.action = a, !.am_action = ama,
                             !.order_type = ot, !.am_order_type = amot,
                             !.signal_type = st, !.is_bear = bear, !.plot_0 = plot] :
          a \in {Null, Str(Upper(s_buy)), Str(s_placeholder)},
          ama \in {Null, Str(s_sell)},
          ot \in {Null, Str(Upper(s_exit_long)), Str(s_placeholder)},
          amot \in {Null, Str(s_reduce_long), Str(s_placeholder)},
          st \in {Null, Str(s_short)},
          bear \in {Null, Bool(TRUE)},
          plot \in {Null, Num(One)}}

InitNormalize ==
  /\ history = <<>>
  /\ now = 0
  /\ nextId = 1
  /\ config = <<>>
  /\ inflight = [w \in Workers |-> Idle]
  /\ failed = FALSE
  /\ arg \in NormalizeInputs
  /\ ret = <<>>

SpecNormalize == InitNormalize /\ [][Normalize]_vars

\* one call of WebhookNormalizer.detect_alert_type
DetectAlertType ==
  /\ ret = <<>>
  /\ ret' = detect_alert_type(arg)
  /\ UNCHANGED <<history, now, nextId, config, inflight, failed, arg>>

\* order types, comments and order ids in either case, with and without a
\* keyword; <<>> is None or the empty string
ClassifyInputs ==
  [order_type : {<<>>, s_enter_long, Upper(s_entry_) \o s_short, s_reduce_long,
                 Upper(s_exit_long), s_market},
   order_comment : {<<>>, s_TP1, s_tp2, s_TP3, s_SL, Lower(s_STOP), <<"x">>,
                    s_TP2 \o <<" ">> \o s_TP1},
   order_id : {<<>>, Upper(s_1st_target), s_2nd_target, s_3rd_target,
               Upper(s_stop_loss_sp), <<"x">>}]

InitClassify ==
  /\ history = <<>>
  /\ now = 0
  /\ nextId = 1
  /\ config = <<>>
  /\ inflight = [w \in Workers |-> Idle]
  /\ failed = FALSE
  /\ arg \in ClassifyInputs
  /\ ret = <<>>

SpecClassify == InitClassify /\ [][DetectAlertType]_vars

\* The arithmetic of Python floats on exact values: a finite value is a
\* reduced fraction <<numerator, denominator>> with a positive denominator,
\* NaN and the infinities are as above (denominator 0). Rounding and overflow
\* of finite values are left out.
RECURSIVE GCD(_, _)
GCD(a, b) == IF b = 0 THEN a ELSE GCD(b, a % b)

Ratio(num, den) ==
  Only({<<(IF den < 0 THEN -num ELSE num) \div g, Abs(den) \div g>> :
          g \in {GCD(Abs(num), Abs(den))}})

\* a float read by the program (Some(n), NaN or an infinity) as such a value
ExactOf(x) == IF IsFinite(x) THEN Ratio(x[1], One) ELSE x

SignOf(x) == IF x[1] > 0 THEN 1 ELSE IF x[1] < 0 THEN -1 ELSE 0

IsInf(x) == x[2] = 0 /\ x[1] # 0

\* x - y
FloatSub(x, y) ==
  IF x = NaN \/ y = NaN THEN NaN
  ELSE IF IsInf(x) /\ IsInf(y) THEN (IF x = y THEN NaN ELSE x)
  ELSE IF IsInf(x) THEN x
  ELSE IF IsInf(y) THEN Infinity(-y[1])
  ELSE Ratio(x[1] * y[2] - y[1] * x[2], x[2] * y[2])

\* x * y
FloatMul(x, y) ==
  IF x = NaN \/ y = NaN THEN NaN
  ELSE IF IsInf(x) \/ IsInf(y)
       THEN (IF SignOf(x) * SignOf(y) = 0 THEN NaN
             ELSE Infinity(SignOf(x) * SignOf(y)))
  ELSE Ratio(x[1] * y[1], x[2] * y[2])

\* x / y for y other than zero
FloatDiv(x, y) ==
  IF x = NaN \/ y = NaN THEN NaN
  ELSE IF IsInf(x) /\ IsInf(y) THEN NaN
  ELSE IF IsInf(x) THEN Infinity(SignOf(x) * SignOf(y))
  ELSE IF IsInf(y) THEN Ratio(0, 1)
  ELSE Ratio(x[1] * y[2], x[2] * y[1])

\* -x and x + y
FloatNeg(x) == <<-x[1], x[2]>>

FloatAdd(x, y) == FloatSub(x, FloatNeg(y))

Zero == Ratio(0, 1)

\* x > 0, false of NaN
FloatPositive(x) == x # NaN /\ x[1] > 0

\* x < 0 and x <= 0, both false of NaN
FloatNegative(x) == x # NaN /\ x[1] < 0

FloatNotPositive(x) == x # NaN /\ x[1] <= 0

Hundred == Ratio(100, 1)

\* ExitPnLOf with the absolute P&L of a short computed as that of a long
ExitPnLUnflippedAbsolute(entry_price, exit_price, direction_lower, quantity) ==
  Only({[pnl_percent |-> FloatMul(FloatDiv(diff, entry_price), Hundred),
         pnl_absolute |-> FloatMul(FloatSub(exit_price, entry_price), quantity),
         quantity |-> quantity] :
          diff \in {IF direction_lower = s_long
                    THEN FloatSub(exit_price, entry_price)
                    ELSE FloatSub(entry_price, exit_price)}})

\* pnl_calculator.py lines 91-109: the result for a lower-cased direction
ExitPnLOf(entry_price, exit_price, direction_lower, quantity) ==
  Only({[pnl_percent |-> FloatMul(FloatDiv(diff, entry_price), Hundred),
         pnl_absolute |-> FloatMul(diff, quantity),
         quantity |-> quantity] :
          diff \in {IF direction_lower = s_long
                    THEN FloatSub(exit_price, entry_price)
                    ELSE FloatSub(entry_price, exit_price)}})

NoResult == <<>>

\* calculate_exit_pnl rejecting a quantity of zero as well
ExitPnlRejectingZeroQuantity(entry_price, exit_price, direction, quantity) ==
  IF \/ FloatNotPositive(entry_price)
     \/ FloatNotPositive(quantity)
     \/ Lower(direction) \notin {s_long, s_short}
  THEN [raised |-> TRUE, value |-> NoResult]
  ELSE [raised |-> FALSE,
        value |-> ExitPnLOf(entry_price, exit_price, Lower(direction), quantity)]

\* PnLCalculator.calculate_exit_pnl: raised is the ValueError of lines 81-89
calculate_exit_pnl(entry_price, exit_price, direction, quantity) ==
  IF \/ FloatNotPositive(entry_price)
     \/ FloatNegative(quantity)
     \/ Lower(direction) \notin {s_long, s_short}
  THEN [raised |-> TRUE, value |-> NoResult]
  ELSE [raised |-> FALSE,
        value |-> ExitPnLOf(entry_price, exit_price, Lower(direction), quantity)]

\* pnl_calculator.py lines 150-171: the totals before the first exit and
\* after one more exit; an exit without a price or with a quantity that is
\* not positive is skipped
NoExits ==
  [exits_breakdown |-> <<>>, total_quantity |-> Zero,
   total_pnl_absolute |-> Zero, weighted_pnl_sum |-> Zero, raised |-> FALSE]

AddExit(acc, exit_pnl, quantity) ==
  [exits_breakdown |-> Append(acc.exits_breakdown, exit_pnl.value),
   total_quantity |-> FloatAdd(acc.total_quantity, quantity),
   total_pnl_absolute |-> FloatAdd(acc.total_pnl_absolute,
                                   exit_pnl.value.pnl_absolute),
   weighted_pnl_sum |-> FloatAdd(acc.weighted_pnl_sum,
                                 FloatMul(exit_pnl.value.pnl_percent, quantity)),
   raised |-> FALSE]

WeightedStep(acc, exit_data, entry_price, direction) ==
  IF acc.raised THEN acc
  ELSE IF exit_data.exit_price = None \/ FloatNotPositive(ExactOf(exit_data.quantity))
  THEN acc
  ELSE Only({IF exit_pnl.raised THEN [acc EXCEPT !.raised = TRUE]
             ELSE AddExit(acc, exit_pnl, ExactOf(exit_data.quantity)) :
               exit_pnl \in {calculate_exit_pnl(entry_price,
                                ExactOf(exit_data.exit_price), direction,
                                ExactOf(exit_data.quantity))}})

RECURSIVE WeightedLoop(_, _, _, _)
WeightedLoop(exits, k, entry_price, direction) ==
  IF k = 0 THEN NoExits
  ELSE Only({WeightedStep(acc, exits[k], entry_price, direction) :
               acc \in {WeightedLoop(exits, k - 1, entry_price, direction)}})

\* lines 173-187
WeightedPnLOf(acc) ==
  [total_pnl_percent |-> IF FloatPositive(acc.total_quantity)
                         THEN FloatDiv(acc.weighted_pnl_sum, acc.total_quantity)
                         ELSE Zero,
   total_pnl_absolute |-> acc.total_pnl_absolute,
   total_quantity |-> acc.total_quantity,
   exits_breakdown |-> acc.exits_breakdown]

\* PnLCalculator.calculate_weighted_pnl: raised is the ValueError of lines
\* 135-140
calculate_weighted_pnl(exits, entry_price, direction) ==
  IF FloatNotPositive(entry_price) \/ Lower(direction) \notin {s_long, s_short}
  THEN [raised |-> TRUE, value |-> NoResult]
  ELSE IF exits = <<>>
  THEN [raised |-> FALSE, value |-> WeightedPnLOf(NoExits)]
  ELSE Only({IF acc.raised THEN [raised |-> TRUE, value |-> NoResult]
             ELSE [raised |-> FALSE, value |-> WeightedPnLOf(acc)] :
               acc \in {WeightedLoop(exits, Len(exits), entry_price, direction)}})

\* one call of PnLCalculator.calculate_weighted_pnl
CalculateWeightedPnl ==
  /\ ret = <<>>
  /\ ret' = calculate_weighted_pnl(arg.exits, ExactOf(arg.entry_price),
                                   arg.direction)
  /\ UNCHANGED <<history, now, nextId, config, inflight, failed, arg>>

MaxExits == 2

\* exits with and without a price and with negative, zero and positive
\* quantities
ExitData ==
  [exit_price : {None, Some(90 * One), Some(110 * One)},
   quantity : {Some(-One), Some(0), Some(One), Some(3 * One)}]

WeightedPnlInputs ==
  [exits : UNION {[1..n -> ExitData] : n \in 0..MaxExits},
   entry_price : {Some(0), Some(100 * One)},
   direction : {s_long, s_short, s_buy}]

InitWeightedPnl ==
  /\ history = <<>>
  /\ now = 0
  /\ nextId = 1
  /\ config = <<>>
  /\ inflight = [w \in Workers |-> Idle]
  /\ failed = FALSE
  /\ arg \in WeightedPnlInputs
  /\ ret = <<>>

SpecWeightedPnl == InitWeightedPnl /\ [][CalculateWeightedPnl]_vars

\* A key that a dict does not have; Null is a key whose value is None
Missing == [t |-> "missing", s |-> <<>>, n |-> 0]

\* dict.get(key, '') of the metadata
GetOrEmpty(v) == IF v = Missing THEN Str(s_empty) ELSE v

\* trade_grouping.py lines 1028-1043: the level found in the metadata of a
\* dict without tp_level. metadata is "missing", "null" or "dict"; raised is
\* the AttributeError of None.get, None.upper or None.lower
MetadataLevel(trade) ==
  IF trade.metadata = "missing" THEN [raised |-> FALSE, tp_level |-> trade.tp_level]
  ELSE IF \/ trade.metadata = "null"
          \/ GetOrEmpty(trade.order_comment).t # "str"
          \/ GetOrEmpty(trade.order_id).t # "str"
  THEN [raised |-> TRUE, tp_level |-> trade.tp_level]
  ELSE Only({[raised |-> FALSE,
              tp_level |-> IF Contains(s_TP1, c[1]) \/ Contains(s_1st_target, c[2])
                             THEN Str(s_TP1)
                           ELSE IF Contains(s_TP2, c[1]) \/ Contains(s_2nd_target, c[2])
                             THEN Str(s_TP2)
                           ELSE IF Contains(s_TP3, c[1]) \/ Contains(s_3rd_target, c[2])
                             THEN Str(s_TP3)
                           ELSE trade.tp_level] :
               c \in {<<Upper(GetOrEmpty(trade.order_comment).s),
                        Lower(GetOrEmpty(trade.order_id).s)>>}})

\* lines 1015-1045: the level of one trade; kind is "object" (it has the
\* attribute tp_level), "dict" or "other" (skipped)
TradeLevel(trade) ==
  IF trade.kind = "dict" /\ ~Truthy(trade.tp_level)
  THEN MetadataLevel(trade)
  ELSE [raised |-> FALSE, tp_level |-> trade.tp_level]

NotHit == [hit |-> FALSE, timestamp |-> None, price |-> None, pnl_percent |-> None]

HitBy(trade) ==
  [hit |-> TRUE, timestamp |-> trade.timestamp, price |-> trade.price,
   pnl_percent |-> trade.realized_pnl_percent]

NoTrades == [raised |-> FALSE, tp1 |-> NotHit, tp2 |-> NotHit, tp3 |-> NotHit]

\* lines 1047-1062: the first trade of a level marks it
MarkHit(result, trade, tp_level) ==
  IF tp_level = Str(s_TP1) /\ ~result.tp1.hit THEN [result EXCEPT !.tp1 = HitBy(trade)]
  ELSE IF tp_level = Str(s_TP2) /\ ~result.tp2.hit THEN [result EXCEPT !.tp2 = HitBy(trade)]
  ELSE IF tp_level = Str(s_TP3) /\ ~result.tp3.hit THEN [result EXCEPT !.tp3 = HitBy(trade)]
  ELSE result

TpHitStep(result, trade) ==
  IF result.raised \/ trade.kind = "other" THEN result
  ELSE Only({IF level.raised THEN [result EXCEPT !.raised = TRUE]
             ELSE MarkHit(result, trade, level.tp_level) :
               level \in {TradeLevel(trade)}})

RECURSIVE TpHitLoop(_, _)
TpHitLoop(trades, k) ==
  IF k = 0 THEN NoTrades
  ELSE Only({TpHitStep(result, trades[k]) : result \in {TpHitLoop(trades, k - 1)}})

TPHitStatus(result) ==
  [raised |-> result.raised, tp1 |-> result.tp1, tp2 |-> result.tp2,
   tp3 |-> result.tp3,
   all_tps_complete |-> result.tp1.hit /\ result.tp2.hit /\ result.tp3.hit]

\* get_tp_hit_status; trades is None (<<>>) or the list in <<list>>
get_tp_hit_status(trades) ==
  IF trades = None THEN TPHitStatus(NoTrades)
  ELSE Only({TPHitStatus(TpHitLoop(list, Len(list))) : list \in {trades[1]}})

\* one call of get_tp_hit_status
GetTpHitStatus ==
  /\ ret = <<>>
  /\ ret' = get_tp_hit_status(arg.trades)
  /\ UNCHANGED <<history, now, nextId, config, inflight, failed, arg>>

MaxTrades == 4

TradeDict(tp_level, price, metadata, order_comment, order_id) ==
  [kind |-> "dict", tp_level |-> tp_level, timestamp |-> Some(price),
   price |-> Some(price), realized_pnl_percent |-> None, metadata |-> metadata,
   order_comment |-> order_comment, order_id |-> order_id]

\* a stored record (WebhookLog) of an entry
EntryObject == [TradeDict(Str(s_ENTRY), 100, "missing", Missing, Missing) EXCEPT !.kind = "object"]

s_Tp2_hit == <<"T","p","2"," ","h","i","t">>

\* dicts at TP1 (twice, at two prices), TP2, TP3 and SL, a stored entry, a
\* dict whose level is in its order comment only, the dict of an alert of
\* unknown type that had no order comment, and a value that is no trade
TradeShapes ==
  {TradeDict(Str(s_TP1), 105, "missing", Missing, Missing),
   TradeDict(Str(s_TP1), 106, "missing", Missing, Missing),
   TradeDict(Str(s_TP2), 110, "missing", Missing, Missing),
   TradeDict(Str(s_TP3), 115, "dict", Str(s_TP3), Missing),
   TradeDict(Str(s_SL), 95, "missing", Missing, Missing),
   EntryObject,
   TradeDict(Null, 111, "dict", Str(s_Tp2_hit), Missing),
   TradeDict(Null, 101, "dict", Null, Str(s_empty)),
   [EntryObject EXCEPT !.kind = "other"]}

TpHitInputs ==
  [trades : {None} \union {<<list>> : list \in UNION {[1..n -> TradeShapes] : n \in 0..MaxTrades}}]

InitTpHit ==
  /\ history = <<>>
  /\ now = 0
  /\ nextId = 1
  /\ config = <<>>
  /\ inflight = [w \in Workers |-> Idle]
  /\ failed = FALSE
  /\ arg \in TpHitInputs
  /\ ret = <<>>

SpecTpHit == InitTpHit /\ [][GetTpHitStatus]_vars

\* Python's `a or b` on two optional floats: 0.0 is as false as None
FloatOr(a, b) == IF a # None /\ a[1] # 0 THEN a ELSE b

\* the first value of values that is not None, None when there is none
FirstCarried(values) ==
  IF \A i \in 1..Len(values) : values[i] = None THEN None
  ELSE values[CHOOSE i \in 1..Len(values) :
                /\ values[i] # None
                /\ \A j \in 1..(i - 1) : values[j] = None]

\* trade_grouping.py lines 932-948: the timestamp of the row that gave the
\* stop loss, else of the row that gave the take profit
FirstCarrying(webhooks, values) ==
  webhooks[CHOOSE i \in 1..Len(values) :
             /\ values[i] # None
             /\ \A j \in 1..(i - 1) : values[j] = None].timestamp

SltpTimestamp(webhooks, sl_values, tp_values) ==
  IF FirstCarried(sl_values) # None THEN Some(FirstCarrying(webhooks, sl_values))
  ELSE IF FirstCarried(tp_values) # None THEN Some(FirstCarrying(webhooks, tp_values))
  ELSE None

\* lines 923-957 on the rows of the group, latest first
MostRecentOf(webhooks) ==
  Only({[current_stop_loss |-> FirstCarried(v[1]),
         current_take_profit |-> FirstCarried(v[2]),
         exit_trail_price |-> FirstCarried([i \in 1..Len(webhooks) |-> webhooks[i].exit_trail_price]),
         exit_trail_offset |-> FirstCarried([i \in 1..Len(webhooks) |-> webhooks[i].exit_trail_offset]),
         timestamp |-> SltpTimestamp(webhooks, v[1], v[2])] :
          v \in {<<[i \in 1..Len(webhooks) |->
                      FloatOr(webhooks[i].current_stop_loss, webhooks[i].stop_loss)],
                   [i \in 1..Len(webhooks) |->
                      FloatOr(webhooks[i].current_take_profit, webhooks[i].take_profit)]>>}})

\* TradeGroupingService.get_most_recent_sltp on the table H
get_most_recent_sltp(H, trade_group_id) ==
  Only({MostRecentOf(webhooks) : webhooks \in {Reverse(WebhooksOf(H, trade_group_id))}})

\* the rows with their time of arrival
Stamped(logs) == [i \in 1..Len(logs) |-> logs[i] @@ [timestamp |-> i]]

\* one call of TradeGroupingService.get_most_recent_sltp
GetMostRecentSltp ==
  /\ ret = <<>>
  /\ ret' = get_most_recent_sltp(Stamped(arg.logs), arg.trade_group_id)
  /\ UNCHANGED <<history, now, nextId, config, inflight, failed, arg>>

MaxSltpRows == 2

\* rows of group A with a stop loss that is absent, 0 or 90 in the current
\* column, a take profit of 0 in the legacy column and trailing stops, and two
\* rows of another group
MostRecentRows ==
  [trade_group_id : {"A"},
   current_stop_loss : {None, Some(0), Some(90 * One)},
   stop_loss : {None, Some(95 * One)},
   current_take_profit : {None, Some(110 * One)},
   take_profit : {None, Some(0)},
   exit_trail_price : {None, Some(One)},
   exit_trail_offset : {None, Some(2 * One)}]
  \union
  [trade_group_id : {"B"},
   current_stop_loss : {Some(80 * One)},
   stop_loss : {None},
   current_take_profit : {None, Some(120 * One)},
   take_profit : {None},
   exit_trail_price : {Some(3 * One)},
   exit_trail_offset : {None}]

MostRecentInputs ==
  [logs : UNION {[1..n -> MostRecentRows] : n \in 0..MaxSltpRows},
   trade_group_id : {"A"}]

InitMostRecent ==
  /\ history = <<>>
  /\ now = 0
  /\ nextId = 1
  /\ config = <<>>
  /\ inflight = [w \in Workers |-> Idle]
  /\ failed = FALSE
  /\ arg \in MostRecentInputs
  /\ ret = <<>>

SpecMostRecent == InitMostRecent /\ [][GetMostRecentSltp]_vars

\* one call of PnLCalculator.calculate_exit_pnl
CalculateExitPnl ==
  /\ ret = <<>>
  /\ ret' = calculate_exit_pnl(ExactOf(arg.entry_price), ExactOf(arg.exit_price),
                               arg.direction, ExactOf(arg.quantity))
  /\ UNCHANGED <<history, now, nextId, config, inflight, failed, arg>>

s_longer == s_long \o <<"e","r">>

\* prices and quantities below, at and above zero, NaN and the infinities;
\* directions in either case and strings that name no direction
ExitPnlInputs ==
  [entry_price : {Infinity(-1), Some(-One), Some(0), Some(One \div 2), Some(100 * One),
                  NaN, Infinity(1)},
   exit_price : {Some(0), Some(90 * One), Some(100 * One), Some(110 * One),
                 NaN, Infinity(1)},
   direction : {s_long, s_short, Upper(s_long), <<"S">> \o Tail(s_short),
                s_empty, s_buy, s_longer},
   quantity : {Infinity(-1), Some(-One), Some(-1), Some(0), Some(One \div 2),
               Some(2 * One), NaN, Infinity(1)}]

InitExitPnl ==
  /\ history = <<>>
  /\ now = 0
  /\ nextId = 1
  /\ config = <<>>
  /\ inflight = [w \in Workers |-> Idle]
  /\ failed = FALSE
  /\ arg \in ExitPnlInputs
  /\ ret = <<>>

SpecExitPnl == InitExitPnl /\ [][CalculateExitPnl]_vars

\* one call of TradeGroupingService.detect_sltp_changes
DetectSltpChanges ==
  /\ ret = <<>>
  /\ ret' = detect_sltp_changes(arg.logs, arg.trade_group_id, arg.current_sl,
                                arg.current_tp)
  /\ UNCHANGED <<history, now, nextId, config, inflight, failed, arg>>

MaxGroupRows == 2

\* rows of two groups with and without stop loss and take profit, in the
\* current and in the legacy column
SltpRows ==
  [trade_group_id : {"A", "B"},
   current_stop_loss : {None, Some(90 * One)},
   stop_loss : {None, Some(95 * One)},
   current_take_profit : {None, Some(110 * One)},
   take_profit : {None, Some(110 * One)}]

\* tables of up to MaxGroupRows rows in the order of their timestamps, and
\* current values that are absent, equal to a stored value, within 0.0001
\* of it and away from it
SltpInputs ==
  [logs : UNION {[1..n -> SltpRows] : n \in 0..MaxGroupRows},
   trade_group_id : {"A"},
   current_sl : {None, Some(90 * One), Some(90 * One + 5), Some(91 * One)},
   current_tp : {None, Some(110 * One), Some(112 * One)}]

InitSltp ==
  /\ history = <<>>
  /\ now = 0
  /\ nextId = 1
  /\ config = <<>>
  /\ inflight = [w \in Workers |-> Idle]
  /\ failed = FALSE
  /\ arg \in SltpInputs
  /\ ret = <<>>

SpecSltp == InitSltp /\ [][DetectSltpChanges]_vars

TypeOK ==
  /\ Len(history) <= MaxHist
  /\ now \in 0..MaxTime
  /\ \A i \in 1..Len(history) : \A j \in 1..Len(history) :
        i < j => history[i].timestamp < history[j].timestamp

-----------------------------------------------------------------------------
(* Properties                                                               *)

\* the ids of the groups that have at least one row
GroupIds == {history[i].trade_group_id : i \in 1..Len(history)} \ {NoGroup}

Status(g) == get_trade_group_status(history, config, g)

ConfigOf(g) ==
  LET first == WebhooksOf(history, g)[1]
  IN  get_config(config, first.user_id, first.symbol, first.broker)

\* the sender reported a position size of 0 with this alert
ObservedSizeZero(r) ==
  \/ r.position_size_after = Some(0)
  \/ r.has_metadata /\ FloatOfStr(r.meta_position_size) = Some(0)

\* the closing conditions as the specification lists them
ClosingAlert(r, c) ==
  \/ ObservedSizeZero(r)
  \/ r.tp_level = s_EXIT
  \/ r.has_metadata /\ r.meta_closes_position
  \/ r.tp_level = LevelName(s_TP, c.tp_count)
  \/ r.tp_level = LevelName(s_SL, c.sl_count)
  \/ c.sl_count = 1 /\ r.tp_level = s_SL

HasClosingAlert(g) ==
  \E i \in 1..Len(history) :
     history[i].trade_group_id = g /\ ClosingAlert(history[i], ConfigOf(g))

\* C1: for every group with at least one row and every configuration,
\* get_trade_group_status returns CLOSED if and only if some alert of the
\* group satisfies a closing condition, and returns ACTIVE in every other case
C1_StatusIffClosingAlert ==
  \A g \in GroupIds :
     Status(g) = IF HasClosingAlert(g) THEN "CLOSED" ELSE "ACTIVE"

\* what the code does keep of C1: a returned status is CLOSED exactly when a
\* closing alert exists
C1_ReturnedStatusIffClosingAlert ==
  \A g \in GroupIds :
     Status(g) # "AttributeError" =>
        Status(g) = IF HasClosingAlert(g) THEN "CLOSED" ELSE "ACTIVE"

\* a group without a closing alert for which no status is returned
C1_StatusRaises ==
  \E g \in GroupIds : ~HasClosingAlert(g) /\ Status(g) = "AttributeError"

\* the rows of the group are an ENTRY followed by an alert with size 0
EntryThenSizeZero(g) ==
  LET webhooks == WebhooksOf(history, g)
  IN  /\ Len(webhooks) >= 2
      /\ webhooks[1].tp_level = s_ENTRY
      /\ \E i \in 2..Len(webhooks) : ObservedSizeZero(webhooks[i])

\* C2: a group whose rows are an ENTRY followed by an alert with observed
\* position size 0 is CLOSED under every configuration: closure by zero
\* position size takes priority over the level counts
C2_ZeroSizeCloses ==
  \A g \in GroupIds : EntryThenSizeZero(g) => Status(g) = "CLOSED"

\* an ENTRY and a size-0 PARTIAL under tp_count = 3 and sl_count = 3, with no
\* TP-level or SL-level alert in the group, and the group is CLOSED
C2_Witness ==
  \E g \in GroupIds :
     /\ EntryThenSizeZero(g)
     /\ ConfigOf(g) = [tp_count |-> 3, sl_count |-> 3]
     /\ \A i \in 1..Len(history) :
          history[i].trade_group_id = g => history[i].tp_level \in {s_ENTRY, s_PARTIAL}
     /\ Status(g) = "CLOSED"

\* a step that stores one more row
Appends == Len(history') = Len(history) + 1

\* what _process_webhook computes for the request of a stored row, in the
\* state before the row was stored
OutcomeBefore(row) ==
  _process_webhook(history, config, now, nextId, row.user_id, row.broker,
                   row.raw_payload)

IdsIn(H) == {H[i].trade_group_id : i \in 1..Len(H)} \ {NoGroup}

\* an entry alert that names its direction (generic path), or an Oanda entry
IsEntryRequest(broker, raw_payload) ==
  IF broker = "oanda" /\ can_parse(raw_payload)
  THEN parse(raw_payload).is_entry
  ELSE /\ normalize(raw_payload).alert_type = s_ENTRY
       /\ Classify(normalize(raw_payload)).trade_direction # None

OrderPriceOf(broker, raw_payload) ==
  IF broker = "oanda" /\ can_parse(raw_payload)
  THEN parse(raw_payload).entry_price
  ELSE normalize(raw_payload).order_price

\* C3: every entry receives a freshly minted group id with is_new_group = true
\* and entry price equal to its order_price; the id is carried by no earlier
\* row, even while an earlier group for the symbol and direction is ACTIVE
C3_EntriesGetFreshGroups ==
  [][Appends =>
       LET row == history'[Len(history')]
           result == OutcomeBefore(row).result
       IN  IsEntryRequest(row.broker, row.raw_payload) =>
             /\ row.trade_group_id # NoGroup
             /\ row.trade_group_id \notin IdsIn(history)
             /\ row.trade_group_id = result.trade_group_id
             /\ result.is_new_group
             /\ result.entry_price = OrderPriceOf(row.broker, row.raw_payload)
             /\ row.entry_price = OrderPriceOf(row.broker, row.raw_payload)]_vars

\* two entries of one user, symbol and direction carry different ids although
\* the group of the first was still ACTIVE when the second arrived
C3_Witness ==
  \E i \in 1..Len(history) : \E j \in 1..Len(history) :
     /\ i < j
     /\ IsEntryRequest(history[i].broker, history[i].raw_payload)
     /\ IsEntryRequest(history[j].broker, history[j].raw_payload)
     /\ history[i].user_id = history[j].user_id
     /\ history[i].symbol = history[j].symbol
     /\ history[i].trade_direction = history[j].trade_direction
     /\ get_trade_group_status(SubSeq(history, 1, j - 1), config,
                               history[i].trade_group_id) = "ACTIVE"
     /\ history[i].trade_group_id # history[j].trade_group_id

\* C5: with alerts processed one at a time, an append-only history and an
\* unchanged configuration, a group that is CLOSED is CLOSED after every later
\* append, and no later row receives its id
C5_ClosedIsTerminal ==
  [][\A g \in GroupIds :
        Status(g) = "CLOSED" =>
          /\ get_trade_group_status(history', config', g) = "CLOSED"
          /\ Appends => history'[Len(history')].trade_group_id # g]_vars

\* a group is CLOSED and a later exit alert of the same user, symbol and
\* direction was stored under another id
C5_Witness ==
  \E g \in GroupIds : \E j \in 1..Len(history) :
     LET webhooks == WebhooksOf(history, g)
     IN  /\ get_trade_group_status(SubSeq(history, 1, j - 1), config, g) = "CLOSED"
         /\ history[j].timestamp > webhooks[Len(webhooks)].timestamp
         /\ history[j].tp_level \in ExitAlertTypes
         /\ history[j].user_id = webhooks[1].user_id
         /\ history[j].symbol = webhooks[1].symbol
         /\ history[j].trade_direction = webhooks[1].trade_direction
         /\ history[j].trade_group_id \notin {g, NoGroup}

\* the rows stored before row j
Before(j) == SubSeq(history, 1, j - 1)

\* the direction the generic correlator resolves for the alert of a row
ResolvedDirection(row) == Classify(normalize(row.raw_payload)).trade_direction

\* the ACTIVE groups of a user, stored symbol and direction with a row inside
\* the lookback window that ends at clock
ActiveGroups(H, clock, user_id, symbol, direction) ==
  {g \in IdsIn(H) :
     /\ get_trade_group_status(H, config, g) = "ACTIVE"
     /\ \E k \in 1..Len(H) :
          /\ H[k].trade_group_id = g
          /\ H[k].user_id = user_id
          /\ H[k].symbol = symbol
          /\ H[k].trade_direction = direction
          /\ H[k].timestamp >= clock - LookbackDays}

\* C4: with alerts processed one at a time through the pipeline, an exit-type
\* alert that arrives within 7 days after an entry alert of the same user,
\* instrument and direction, while the entry's group is still ACTIVE (and is
\* the only such group), is stored with the entry's group id
C4_ExitJoinsEntryGroup ==
  \A i \in 1..Len(history) : \A j \in 1..Len(history) :
     LET entry == history[i]
         exit == history[j]
     IN  ( /\ i < j
           /\ entry.tp_level = s_ENTRY
           /\ exit.tp_level \in ExitAlertTypes
           /\ exit.user_id = entry.user_id
           /\ exit.symbol = entry.symbol
           /\ ResolvedDirection(exit) = entry.trade_direction
           /\ exit.timestamp - entry.timestamp <= LookbackDays
           /\ ActiveGroups(Before(j), exit.timestamp, entry.user_id, entry.symbol,
                           entry.trade_direction) = {entry.trade_group_id} )
         => exit.trade_group_id = entry.trade_group_id

\* C7: every stored alert carries a trade group id: an alert whose direction
\* cannot be determined, or that is neither entry nor exit, gets an orphaned
\* group and is not left without one
C7_EveryAlertHasGroup ==
  \A i \in 1..Len(history) : history[i].trade_group_id # NoGroup

\* C8: an exit-type alert whose direction is determined, with no ACTIVE group
\* of the user and symbol in either direction inside the lookback window,
\* gets an id that no earlier row carries, with is_new_group = false and no
\* entry price
C8_OrphanedExit ==
  \A j \in 1..Len(history) :
     LET row == history[j]
         result == _process_webhook(Before(j), config, row.timestamp, 0, row.user_id,
                                    row.broker, row.raw_payload).result
     IN  ( /\ row.tp_level \in ExitAlertTypes
           /\ ResolvedDirection(row) # None
           /\ \A d \in {s_long, s_short} :
                ActiveGroups(Before(j), row.timestamp, row.user_id, row.symbol, d) = {} )
         => /\ row.trade_group_id # NoGroup
            /\ row.trade_group_id \notin IdsIn(Before(j))
            /\ ~result.is_new_group
            /\ result.entry_price = None
            /\ row.entry_price = None

\* C10: an exit alert whose direction could not be determined, or that has no
\* ACTIVE group in its resolved direction, is assigned to an ACTIVE group of
\* the same user and symbol in the other direction when there is one, and is
\* stored with that group's direction
C10_OppositeDirectionProbe ==
  \A j \in 1..Len(history) :
     LET row == history[j]
         resolved == ResolvedDirection(row)
         active(d) == ActiveGroups(Before(j), row.timestamp, row.user_id, row.symbol, d)
         elsewhere == IF resolved = None THEN active(s_long) \cup active(s_short)
                      ELSE IF active(resolved) = {} THEN active(Opposite(resolved))
                      ELSE {}
     IN  (row.tp_level \in ExitAlertTypes /\ elsewhere # {})
         => /\ row.trade_group_id \in elsewhere
            /\ \E k \in 1..(j - 1) :
                 /\ history[k].trade_group_id = row.trade_group_id
                 /\ history[k].trade_direction = row.trade_direction

\* the candidates of an exit alert and what decides between them
Candidates(rq) ==
  LET n == normalize(rq.raw_payload)
  IN  ActiveGroups(history, now, rq.user_id, n.symbol, Classify(n).trade_direction)

LatestOf(g) == LatestState(history, g)

SizeMatches(rq) ==
  LET n == normalize(rq.raw_payload)
  IN  {g \in Candidates(rq) :
         /\ n.position_size # None
         /\ LatestOf(g).latest_position_size # None
         /\ Abs(LatestOf(g).latest_position_size[1] - n.position_size[1]) < Epsilon}

NearestInTime(rq) ==
  LET t == normalize(rq.raw_payload).timestamp[1].t
  IN  {g \in Candidates(rq) : \A h \in Candidates(rq) :
         Abs(LatestOf(g).latest_timestamp - t) <= Abs(LatestOf(h).latest_timestamp - t)}

MostRecent(rq) ==
  {g \in Candidates(rq) : \A h \in Candidates(rq) :
     LatestOf(g).latest_timestamp >= LatestOf(h).latest_timestamp}

\* C9: with two or more ACTIVE candidates the lookup returns a candidate whose
\* latest position size is within 0.0001 of the alert's, if there is one;
\* otherwise the candidate nearest in time, if the alert has a timestamp;
\* otherwise the most recent candidate
C9_Disambiguation ==
  \A rq \in PyramidAlerts :
     LET n == normalize(rq.raw_payload)
         found == _find_active_trade_group(history, config, now, rq.user_id, n.symbol,
                    Classify(n).trade_direction, n.position_size, n.timestamp)
     IN  (Classify(n).is_exit /\ Cardinality(Candidates(rq)) >= 2)
         => /\ ~found.raised
            /\ found.id \in IF SizeMatches(rq) # {} THEN SizeMatches(rq)
                            ELSE IF n.timestamp # None THEN NearestInTime(rq)
                            ELSE MostRecent(rq)

\* what the code does keep of C9: the same choice whenever the lookup returns
C9_DisambiguationWhenReturned ==
  \A rq \in PyramidAlerts :
     LET n == normalize(rq.raw_payload)
         found == _find_active_trade_group(history, config, now, rq.user_id, n.symbol,
                    Classify(n).trade_direction, n.position_size, n.timestamp)
     IN  (Classify(n).is_exit /\ Cardinality(Candidates(rq)) >= 2 /\ ~found.raised)
         => found.id \in IF SizeMatches(rq) # {} THEN SizeMatches(rq)
                         ELSE IF n.timestamp # None THEN NearestInTime(rq)
                         ELSE MostRecent(rq)

\* C6: the row a worker stores carries the group id it decided on when it
\* read the store, whatever other workers have stored in between: the
\* read-decide-append sequence is not one transaction
C6_DecisionNotRevised ==
  [][\A w \in Workers :
        (inflight[w].busy /\ ~inflight'[w].busy /\ Appends)
        => history'[Len(history')].trade_group_id
             = inflight[w].entry.result.trade_group_id]_vars

\* two exit alerts were stored in one group although the first of them
\* closed it: the second was decided before the first was stored
C6_Witness ==
  \E i \in 1..Len(history) : \E j \in 1..Len(history) :
     /\ i < j
     /\ history[i].tp_level \in ExitAlertTypes
     /\ history[j].tp_level \in ExitAlertTypes
     /\ history[i].trade_group_id = history[j].trade_group_id
     /\ history[i].trade_group_id # NoGroup
     /\ get_trade_group_status(Before(i), config, history[i].trade_group_id) = "ACTIVE"
     /\ get_trade_group_status(Before(j), config, history[j].trade_group_id) = "CLOSED"

\* the alert of a row takes the position from one direction to the other
IsReversal(normalized) ==
  \/ normalized.prev_market_position = s_long /\ normalized.market_position = s_short
  \/ normalized.prev_market_position = s_short /\ normalized.market_position = s_long

\* C11: an alert whose prev_market_position and market_position are opposite
\* directions is handled only as an exit of the prior direction: the result's
\* direction is the prior direction and is_new_group is false
C11_ReversalIsExit ==
  \A j \in 1..Len(history) :
     \E row \in {history[j]} :
       \E normalized \in {normalize(row.raw_payload)} :
         \E result \in {_process_webhook(Before(j), config, row.timestamp, 0,
                                         row.user_id, row.broker,
                                         row.raw_payload).result} :
           IsReversal(normalized)
             => /\ result.trade_direction = normalized.prev_market_position
                /\ ~result.is_new_group

\* the same for a reversal that neither its alert type nor its order type
\* classifies, while the other direction has no ACTIVE group to fall back on
C11_UnclassifiedReversalIsExit ==
  \A j \in 1..Len(history) :
     \E row \in {history[j]} :
       \E normalized \in {normalize(row.raw_payload)} :
         \E result \in {_process_webhook(Before(j), config, row.timestamp, 0,
                                         row.user_id, row.broker,
                                         row.raw_payload).result} :
           ( /\ IsReversal(normalized)
             /\ normalized.alert_type = s_UNKNOWN
             /\ normalized.order_type = <<>>
             /\ \/ ActiveGroups(Before(j), row.timestamp, row.user_id, row.symbol,
                                normalized.prev_market_position) # {}
                \/ ActiveGroups(Before(j), row.timestamp, row.user_id, row.symbol,
                                normalized.market_position) = {} )
             => /\ result.trade_direction = normalized.prev_market_position
                /\ ~result.is_new_group

\* a reversal ordered while a long group is ACTIVE opens a short group
C11_ReversalOpensGroup ==
  \E j \in 1..Len(history) :
     /\ history[j].raw_payload = ReversalStrategy
     /\ history[j].trade_direction = s_short
     /\ history[j].tp_level = s_ENTRY
     /\ history[j].trade_group_id \notin IdsIn(Before(j))
     /\ ActiveGroups(Before(j), history[j].timestamp, 1, s_BTC_USDT, s_long) # {}

\* C12: normalize returns a record and never raises, whatever the types and
\* values of the fields of its input
C12_NormalizeNeverRaises ==
  ret # <<>> => ~ret.raised

\* the empty mapping gives a record with empty symbol and alert type UNKNOWN
C12_EmptyMapping ==
  (ret # <<>> /\ arg = EmptyPayload)
    => ~ret.raised /\ ret.symbol = <<>> /\ ret.alert_type = s_UNKNOWN

\* normalize has raised on a payload whose only field is tp_count = "inf"
C12_InfiniteCountRaises ==
  /\ arg = [EmptyPayload EXCEPT !.tp_count = Str(s_inf)]
  /\ ret # <<>>
  /\ ret.raised

\* normalize raises only on a non-finite count or on a truthy order_type,
\* order_comment or order_id that is no string
C12_RaisesOnlyOnCountOrText ==
  (ret # <<>> /\ ret.raised)
    => \/ _parse_float(arg.tp_count) \in {Infinity(1), Infinity(0 - 1)}
       \/ \E f \in {"order_type", "am_order_type", "order_comment", "order_id"} :
            Truthy(arg[f]) /\ arg[f].t # "str"

\* the values normalize reads a field from, in the order it reads them
SizeSources == <<"position_size", "am_position_size">>

PriceSources == <<"order_price", "price">>

\* C13: a numeric field of the record is absent or a float that is not NaN; a
\* supplied 0 (the number or the text "0") gives 0.0, never absent; an absent
\* field is never 0
NumericFieldOk(value, sources) ==
  /\ value # NaN
  /\ arg[sources[1]] \in {Num(0), Str(s_0)} => value = Some(0)
  /\ (\A i \in 1..Len(sources) : arg[sources[i]] = Null) => value = None

C13_NumericFields ==
  (ret # <<>> /\ ~ret.raised)
    => /\ NumericFieldOk(ret.position_size, SizeSources)
       /\ NumericFieldOk(ret.order_price, PriceSources)

\* the same without the demand that the float is not NaN
C13_ZeroIsNotAbsent ==
  (ret # <<>> /\ ~ret.raised)
    => /\ arg.position_size \in {Num(0), Str(s_0)} => ret.position_size = Some(0)
       /\ arg.order_price \in {Num(0), Str(s_0)} => ret.order_price = Some(0)
       /\ (arg.position_size = Null /\ arg.am_position_size = Null)
            => ret.position_size = None
       /\ (arg.order_price = Null /\ arg.price = Null /\ arg.close = Null)
            => ret.order_price = None

\* the text "nan" has become the position size NaN
C13_NaNSize ==
  /\ ret # <<>>
  /\ ~ret.raised
  /\ arg.position_size = Str(s_nan)
  /\ ret.position_size = NaN

\* C14: is_position_closed is true exactly when the position_size of the
\* record is 0 and the market_position of the record is "flat"
C14_ClosedIffZeroAndFlat ==
  (ret # <<>> /\ ~ret.raised)
    => (ret.is_position_closed
          <=> (ret.position_size = Some(0) /\ ret.market_position = s_flat))

\* the same for payloads on which no indicator fallback replaces the position
C14_ClosedIffZeroAndFlatRead ==
  (ret # <<>> /\ ~ret.raised
     /\ ret.market_position = LowerTextOf(arg.market_position, arg.am_market_position))
    => (ret.is_position_closed
          <=> (ret.position_size = Some(0) /\ ret.market_position = s_flat))

\* a record that is closed although its market_position is "long"
C14_ClosedButLong ==
  /\ ret # <<>>
  /\ ~ret.raised
  /\ ret.is_position_closed
  /\ ret.position_size = Some(0)
  /\ ret.market_position = s_long

\* a text field as C16 resolves it: a placeholder or anything that is no
\* non-empty string is absent
Present(v) == v.t = "str" /\ v.s # <<>> /\ ~StartsWith(v.s, s_braces)

PreferSubMessage(sub, outer) ==
  IF Present(sub) THEN Lower(sub.s)
  ELSE IF Present(outer) THEN Lower(outer.s)
  ELSE <<>>

\* no indicator field is in the payload
NoIndicatorFields ==
  /\ arg.signal_type = Null /\ arg.am_signal_type = Null
  /\ arg.is_bull = Null /\ arg.is_bear = Null
  /\ arg.is_bull_exit = Null /\ arg.is_bear_exit = Null
  /\ arg.plot_0 = Null

\* C16: action and order_type are each the value of the sub-message when it
\* has one, else the value of the outer payload, lowercased; a template
\* placeholder counts as absent
C16_SubMessageFirst ==
  (ret # <<>> /\ ~ret.raised /\ NoIndicatorFields
     /\ arg.side = Null /\ arg.order_action = Null)
    => /\ ret.action = PreferSubMessage(arg.am_action, arg.action)
       /\ ret.order_type = PreferSubMessage(arg.am_order_type, arg.order_type)

\* what holds of the two fields: the action is read from the outer payload
\* with placeholders skipped; the order type is read from the sub-message
\* first, and a placeholder is a value like any other
C16_AsRead ==
  (ret # <<>> /\ ~ret.raised /\ NoIndicatorFields
     /\ arg.side = Null /\ arg.order_action = Null)
    => /\ ret.action = PreferSubMessage(Null, arg.action)
       /\ ret.order_type =
            IF arg.am_order_type.t = "str" /\ arg.am_order_type.s # <<>>
            THEN Lower(arg.am_order_type.s)
            ELSE IF arg.order_type.t = "str" THEN Lower(arg.order_type.s)
            ELSE <<>>

\* the action of the sub-message is not taken
C16_SubMessageActionIgnored ==
  /\ ret # <<>>
  /\ ~ret.raised
  /\ NoIndicatorFields
  /\ arg.am_action = Str(s_sell)
  /\ arg.action = Str(Upper(s_buy))
  /\ ret.action = s_buy

\* the fields as regular resolution leaves them
Resolved ==
  RegularFields(arg, OrderTypeOf(arg),
                detect_alert_type_from_data(OrderTypeOf(arg),
                                            TextOrEmpty(arg.order_comment),
                                            TextOrEmpty(arg.order_id)),
                LowerTextOf(arg.market_position, arg.am_market_position))

\* C17: a payload whose action and order_type are resolved by the regular
\* fields keeps them, and keeps its alert type and market_position, whatever
\* indicator fields (signal_type, Bull/Bear flags, plot_0) come with it
C17_FallbackOnlyWhenUnresolved ==
  (ret # <<>> /\ ~ret.raised /\ Resolved.action # <<>> /\ Resolved.order_type # <<>>)
    => /\ ret.action = Resolved.action
       /\ ret.order_type = Resolved.order_type
       /\ ret.alert_type = Resolved.alert_type
       /\ ret.market_position = Resolved.market_position

\* the same for the Bull/Bear flags and plot_0 alone: with no signal_type, a
\* resolved action is enough to keep all four fields
C17_FlagsAndPlotOnlyWithoutAction ==
  (ret # <<>> /\ ~ret.raised /\ Resolved.action # <<>>
     /\ arg.signal_type = Null /\ arg.am_signal_type = Null)
    => /\ ret.action = Resolved.action
       /\ ret.order_type = Resolved.order_type
       /\ ret.alert_type = Resolved.alert_type
       /\ ret.market_position = Resolved.market_position

\* a resolved buy / reduce_long payload turned into a short entry by its
\* signal_type
C17_SignalTypeOverrides ==
  /\ ret # <<>>
  /\ ~ret.raised
  /\ Resolved.action = s_buy
  /\ Resolved.order_type = s_reduce_long
  /\ ret.action = s_sell
  /\ ret.order_type = s_enter_short
  /\ ret.alert_type = s_ENTRY

\* the signal an order comment carries, if any: the first of TP1, TP2, TP3
\* it contains, else STOP_LOSS for SL or STOP, in any case of the letters
CommentSignal(order_comment) ==
  LET c == Upper(order_comment)
  IN  IF Contains(s_TP1, c) THEN Some(s_TP1)
      ELSE IF Contains(s_TP2, c) THEN Some(s_TP2)
      ELSE IF Contains(s_TP3, c) THEN Some(s_TP3)
      ELSE IF Contains(s_SL, c) \/ Contains(s_STOP, c) THEN Some(s_SL)
      ELSE None

\* the signal an order id carries, if any
IdSignal(order_id) ==
  LET i == Lower(order_id)
  IN  IF Contains(s_1st_target, i) THEN Some(s_TP1)
      ELSE IF Contains(s_2nd_target, i) THEN Some(s_TP2)
      ELSE IF Contains(s_3rd_target, i) THEN Some(s_TP3)
      ELSE IF Contains(s_stop_loss_sp, i) THEN Some(s_SL)
      ELSE None

\* C15: detect_alert_type always returns a type, the first that matches of:
\* ENTRY for an order_type with enter_ or entry_; the signal of the
\* order_comment; the signal of the order_id; PARTIAL for reduce_; EXIT for
\* exit_; else UNKNOWN.  A signal in the comment wins over one in the id.
C15_PrecedenceChain ==
  ret # <<>> =>
    LET order_type == Lower(arg.order_type)
        entry == Contains(s_enter_, order_type) \/ Contains(s_entry_, order_type)
        by_comment == CommentSignal(arg.order_comment)
        by_id == IdSignal(arg.order_id)
    IN  /\ ret \in {s_ENTRY, s_TP1, s_TP2, s_TP3, s_SL, s_PARTIAL, s_EXIT, s_UNKNOWN}
        /\ entry => ret = s_ENTRY
        /\ (~entry /\ by_comment # None) => ret = by_comment[1]
        /\ (~entry /\ by_comment = None /\ by_id # None) => ret = by_id[1]
        /\ (~entry /\ by_comment = None /\ by_id = None)
             => ret = IF Contains(s_reduce_, order_type) THEN s_PARTIAL
                      ELSE IF Contains(s_exit_, order_type) THEN s_EXIT
                      ELSE s_UNKNOWN

\* a comment that says TP1 against an order id that says 2nd target
C15_Witness ==
  /\ ret = s_TP1
  /\ arg.order_type = s_reduce_long
  /\ arg.order_comment = s_TP1
  /\ arg.order_id = s_2nd_target

\* the rows of the group the call is about, oldest first
GroupRows == WebhooksOf(arg.logs, arg.trade_group_id)

\* the stop loss and the take profit a row carries
SlOf(row) == PreviousValue(row.current_stop_loss, row.stop_loss)

TpOf(row) == PreviousValue(row.current_take_profit, row.take_profit)

\* the value of the latest row of rows that carries one, given the values of
\* the rows; None when no row carries one
LatestCarried(values) ==
  LET carrying == {i \in 1..Len(values) : values[i] # None}
  IN  IF carrying = {} THEN None
      ELSE values[CHOOSE i \in carrying : \A j \in carrying : j <= i]

\* C18: the current SL, and independently the current TP, is compared with
\* the value of the most recent prior alert of the group that carries a value
\* for that field (current field first, legacy field second); alerts that
\* carry none are skipped
C18_BaselineSkipsAlertsWithoutValue ==
  (ret # <<>> /\ GroupRows # <<>>)
    => /\ ret.sl_changed
            = FieldChanged(arg.current_sl,
                           LatestCarried([i \in 1..Len(GroupRows) |-> SlOf(GroupRows[i])]))
       /\ ret.tp_changed
            = FieldChanged(arg.current_tp,
                           LatestCarried([i \in 1..Len(GroupRows) |-> TpOf(GroupRows[i])]))

\* the baseline is the value of the latest alert of the group, whether that
\* alert carries one or not
C18_BaselineIsLatestAlert ==
  (ret # <<>> /\ GroupRows # <<>>)
    => /\ ret.sl_changed = FieldChanged(arg.current_sl, SlOf(GroupRows[Len(GroupRows)]))
       /\ ret.tp_changed = FieldChanged(arg.current_tp, TpOf(GroupRows[Len(GroupRows)]))

\* an unchanged stop loss reported as changed because the latest alert of
\* the group carries none
C18_UnchangedReported ==
  /\ ret # <<>>
  /\ Len(GroupRows) = 2
  /\ SlOf(GroupRows[1]) = Some(90 * One)
  /\ SlOf(GroupRows[2]) = None
  /\ arg.current_sl = Some(90 * One)
  /\ ret.sl_changed

\* the earlier value of a field: that of the latest alert of the group, None
\* when the group has no alert
EarlierSl == IF GroupRows = <<>> THEN None ELSE SlOf(GroupRows[Len(GroupRows)])

EarlierTp == IF GroupRows = <<>> THEN None ELSE TpOf(GroupRows[Len(GroupRows)])

ChangedIff(changed, current, earlier) ==
  changed <=> /\ current # None
              /\ \/ earlier = None
                 \/ Abs(current[1] - earlier[1]) > ChangeEpsilon

\* C19: a field is reported as changed exactly when the current value is
\* present and either no earlier value exists or the two differ by more than
\* 0.0001; an absent current value is never a change
C19_ChangedIff ==
  ret # <<>>
    => /\ ChangedIff(ret.sl_changed, arg.current_sl, EarlierSl)
       /\ ChangedIff(ret.tp_changed, arg.current_tp, EarlierTp)

\* the same for a group that has an alert
C19_ChangedIffInGroup ==
  (ret # <<>> /\ GroupRows # <<>>)
    => /\ ChangedIff(ret.sl_changed, arg.current_sl, EarlierSl)
       /\ ChangedIff(ret.tp_changed, arg.current_tp, EarlierTp)

\* an absent current value is never a change
C19_RemovalIsNoChange ==
  ret # <<>>
    => /\ arg.current_sl = None => ~ret.sl_changed
       /\ arg.current_tp = None => ~ret.tp_changed

\* a stop loss given for a group with no alert is not reported
C19_FirstValueNotReported ==
  /\ ret # <<>>
  /\ GroupRows = <<>>
  /\ arg.current_sl # None
  /\ ~ret.sl_changed

\* C20: calculate_exit_pnl fails with a validation error exactly when
\* entry_price <= 0, quantity < 0 or direction is not one of long and short
\* (in either case of the letters), and returns a result in every other
\* case, a quantity of 0 included
C20_ValidationExactly ==
  (ret # <<>> /\ arg \in ExitPnlInputs)
    => /\ ret.raised
            <=> \/ arg.entry_price = Infinity(-1)
                \/ IsFinite(arg.entry_price) /\ arg.entry_price[1] <= 0
                \/ arg.quantity = Infinity(-1)
                \/ IsFinite(arg.quantity) /\ arg.quantity[1] < 0
                \/ Lower(arg.direction) \notin {s_long, s_short}
       /\ ~ret.raised
            => /\ ret.value # NoResult
               /\ ret.value.quantity = ExactOf(arg.quantity)

\* a result for a quantity of 0
C20_ZeroQuantityResult ==
  /\ ret # <<>>
  /\ arg \in ExitPnlInputs
  /\ arg.quantity = Some(0)
  /\ arg.entry_price = Some(100 * One)
  /\ arg.exit_price = Some(110 * One)
  /\ arg.direction = s_long
  /\ ~ret.raised
  /\ ret.value = [pnl_percent |-> Ratio(10, 1), pnl_absolute |-> Ratio(0, 1),
                  quantity |-> Ratio(0, 1)]

\* a call with a positive finite entry price, a finite exit price and a
\* finite quantity that is not negative
ValidPnlArgs ==
  /\ arg \in ExitPnlInputs
  /\ IsFinite(arg.entry_price) /\ arg.entry_price[1] > 0
  /\ IsFinite(arg.exit_price)
  /\ IsFinite(arg.quantity) /\ arg.quantity[1] >= 0

\* the result of the same call for the short direction
ShortResult ==
  calculate_exit_pnl(ExactOf(arg.entry_price), ExactOf(arg.exit_price), s_short,
                     ExactOf(arg.quantity))

\* what C21 says of negation and of break-even
NegationAndBreakEven(long, short) ==
  /\ short.pnl_percent = FloatNeg(long.pnl_percent)
  /\ short.pnl_absolute = FloatNeg(long.pnl_absolute)
  /\ arg.exit_price = arg.entry_price
       => /\ long.pnl_percent = Zero /\ long.pnl_absolute = Zero
          /\ short.pnl_percent = Zero /\ short.pnl_absolute = Zero

\* C21: for every valid entry price, exit price and quantity the short
\* result is the exact negation of the long result in pnl_percent and
\* pnl_absolute, the long result is positive exactly when exit > entry, and
\* exit = entry gives exactly 0 in both directions
C21_NegationAndSign ==
  (ret # <<>> /\ ValidPnlArgs /\ arg.direction = s_long)
    => \E short \in {ShortResult} :
         /\ ~ret.raised /\ ~short.raised
         /\ NegationAndBreakEven(ret.value, short.value)
         /\ ret.value.pnl_percent[1] > 0 <=> arg.exit_price[1] > arg.entry_price[1]
         /\ ret.value.pnl_absolute[1] > 0 <=> arg.exit_price[1] > arg.entry_price[1]

\* the same with the absolute P&L positive exactly when exit > entry and
\* the quantity is positive
C21_NegationAndSignOfTradedQuantity ==
  (ret # <<>> /\ ValidPnlArgs /\ arg.direction = s_long)
    => \E short \in {ShortResult} :
         /\ ~ret.raised /\ ~short.raised
         /\ NegationAndBreakEven(ret.value, short.value)
         /\ ret.value.pnl_percent[1] > 0 <=> arg.exit_price[1] > arg.entry_price[1]
         /\ ret.value.pnl_absolute[1] > 0
              <=> arg.exit_price[1] > arg.entry_price[1] /\ arg.quantity[1] > 0

\* a winning long of quantity 2 whose short counterpart loses as much
C21_Witness ==
  /\ ret # <<>>
  /\ ValidPnlArgs
  /\ arg.direction = s_long
  /\ arg.entry_price = Some(100 * One)
  /\ arg.exit_price = Some(110 * One)
  /\ arg.quantity = Some(2 * One)
  /\ ret.value.pnl_percent = Ratio(10, 1)
  /\ ret.value.pnl_absolute = Ratio(20, 1)
  /\ ShortResult.value.pnl_absolute = Ratio(-20, 1)

\* sums over the exits handed in and over a breakdown
RECURSIVE SumQuantities(_, _)
SumQuantities(exits, k) ==
  IF k = 0 THEN Zero
  ELSE FloatAdd(SumQuantities(exits, k - 1), ExactOf(exits[k].quantity))

RECURSIVE SumAbsolute(_, _)
SumAbsolute(breakdown, k) ==
  IF k = 0 THEN Zero
  ELSE FloatAdd(SumAbsolute(breakdown, k - 1), breakdown[k].pnl_absolute)

RECURSIVE SumWeighted(_, _)
SumWeighted(breakdown, k) ==
  IF k = 0 THEN Zero
  ELSE FloatAdd(SumWeighted(breakdown, k - 1),
                FloatMul(breakdown[k].pnl_percent, breakdown[k].quantity))

AllZero(value) ==
  /\ value.total_pnl_percent = Zero
  /\ value.total_pnl_absolute = Zero
  /\ value.total_quantity = Zero
  /\ value.exits_breakdown = <<>>

\* the totals of a result are those of its breakdown
TotalsOfBreakdown(value) ==
  \E breakdown \in {value.exits_breakdown} :
    /\ value.total_pnl_absolute = SumAbsolute(breakdown, Len(breakdown))
    /\ FloatPositive(value.total_quantity)
         => value.total_pnl_percent
              = FloatDiv(SumWeighted(breakdown, Len(breakdown)), value.total_quantity)

\* the P&L of one exit on its own
OwnPnl(exit_data) ==
  calculate_exit_pnl(ExactOf(arg.entry_price), ExactOf(exit_data.exit_price),
                     arg.direction, ExactOf(exit_data.quantity))

\* C22: calculate_weighted_pnl returns one breakdown entry per exit,
\* total_quantity equal to the sum of all exit quantities, total_pnl_absolute
\* equal to the sum of the per-exit absolute P&L and total_pnl_percent equal
\* to the quantity-weighted average of the per-exit percentages; a single
\* exit gives exactly that exit's own P&L, and an empty exits list gives
\* all-zero results and never an error
C22_WeightedTotals ==
  (ret # <<>> /\ arg \in WeightedPnlInputs)
    => /\ arg.exits = <<>> => ~ret.raised /\ AllZero(ret.value)
       /\ ~ret.raised
            => /\ Len(ret.value.exits_breakdown) = Len(arg.exits)
               /\ ret.value.total_quantity = SumQuantities(arg.exits, Len(arg.exits))
               /\ TotalsOfBreakdown(ret.value)
               /\ (Len(arg.exits) = 1 /\ arg.exits[1].exit_price # None)
                    => \E own \in {OwnPnl(arg.exits[1])} :
                         /\ ~own.raised
                         /\ ret.value.total_pnl_percent = own.value.pnl_percent
                         /\ ret.value.total_pnl_absolute = own.value.pnl_absolute

\* the exits that are counted: those with a price and a positive quantity
Counted(exits) ==
  SelectSeq(exits, LAMBDA x : x.exit_price # None /\ FloatPositive(ExactOf(x.quantity)))

\* the same of the counted exits, for a valid entry price and direction
C22_WeightedTotalsOfCountedExits ==
  (ret # <<>> /\ arg \in WeightedPnlInputs)
    => /\ ret.raised <=> \/ FloatNotPositive(ExactOf(arg.entry_price))
                         \/ Lower(arg.direction) \notin {s_long, s_short}
       /\ ~ret.raised
            => \E counted \in {Counted(arg.exits)} :
                 /\ counted = <<>> => AllZero(ret.value)
                 /\ Len(ret.value.exits_breakdown) = Len(counted)
                 /\ ret.value.total_quantity = SumQuantities(counted, Len(counted))
                 /\ TotalsOfBreakdown(ret.value)
                 /\ Len(counted) = 1
                      => \E own \in {OwnPnl(counted[1])} :
                           /\ ret.value.exits_breakdown = <<own.value>>
                           /\ ret.value.total_pnl_percent = own.value.pnl_percent
                           /\ ret.value.total_pnl_absolute = own.value.pnl_absolute

\* a single winning exit of quantity 0 that leaves no trace in the result
C22_ZeroQuantityExitDropped ==
  /\ ret # <<>>
  /\ arg \in WeightedPnlInputs
  /\ arg.exits = <<[exit_price |-> Some(110 * One), quantity |-> Some(0)]>>
  /\ arg.entry_price = Some(100 * One)
  /\ arg.direction = s_long
  /\ ~ret.raised
  /\ AllZero(ret.value)
  /\ OwnPnl(arg.exits[1]).value.pnl_percent = Ratio(10, 1)

\* the trades of the call
Trades == IF arg.trades = None THEN <<>> ELSE arg.trades[1]

\* the level an alert is at: its tp_level, and for a dict without one the
\* level named in its order comment or order id
LevelNamed(trade, comment_word, id_word) ==
  /\ trade.kind = "dict" /\ ~Truthy(trade.tp_level) /\ trade.metadata = "dict"
  /\ \/ trade.order_comment.t = "str" /\ Contains(comment_word, Upper(trade.order_comment.s))
     \/ trade.order_id.t = "str" /\ Contains(id_word, Lower(trade.order_id.s))

AtTp1(trade) ==
  trade.kind # "other" /\ (trade.tp_level = Str(s_TP1) \/ LevelNamed(trade, s_TP1, s_1st_target))

AtTp2(trade) ==
  /\ trade.kind # "other" /\ ~AtTp1(trade)
  /\ trade.tp_level = Str(s_TP2) \/ LevelNamed(trade, s_TP2, s_2nd_target)

AtTp3(trade) ==
  /\ trade.kind # "other" /\ ~AtTp1(trade) /\ ~AtTp2(trade)
  /\ trade.tp_level = Str(s_TP3) \/ LevelNamed(trade, s_TP3, s_3rd_target)

HitsAsClaimed ==
  /\ ret.tp1.hit <=> \E i \in 1..Len(Trades) : AtTp1(Trades[i])
  /\ ret.tp2.hit <=> \E i \in 1..Len(Trades) : AtTp2(Trades[i])
  /\ ret.tp3.hit <=> \E i \in 1..Len(Trades) : AtTp3(Trades[i])
  /\ ret.all_tps_complete
       <=> /\ \E i \in 1..Len(Trades) : AtTp1(Trades[i])
           /\ \E i \in 1..Len(Trades) : AtTp2(Trades[i])
           /\ \E i \in 1..Len(Trades) : AtTp3(Trades[i])

\* C23: get_tp_hit_status reports tpN_hit exactly when at least one alert of
\* the sequence is at level TPN, and all_tps_complete exactly when TP1, TP2
\* and TP3 each appear at least once, regardless of their order, of
\* duplicates and of any other alert types present; empty or absent input
\* gives all false without an error
C23_HitIffLevelPresent ==
  (ret # <<>> /\ arg \in TpHitInputs) => ~ret.raised /\ HitsAsClaimed

\* a dict without tp_level whose metadata, order comment or order id is None
Unreadable(trade) ==
  /\ trade.kind = "dict" /\ ~Truthy(trade.tp_level)
  /\ \/ trade.metadata = "null"
     \/ trade.metadata = "dict" /\ (trade.order_comment = Null \/ trade.order_id = Null)

\* the same when no dict of the sequence is unreadable, and an error when
\* one is
C23_HitIffLevelPresentWhenReadable ==
  (ret # <<>> /\ arg \in TpHitInputs)
    => /\ ret.raised <=> \E i \in 1..Len(Trades) : Unreadable(Trades[i])
       /\ ~ret.raised => HitsAsClaimed

\* TP1, TP2, TP3 and the dict of an alert of unknown type: an error in
\* place of all_tps_complete
C23_UnknownAlertRaises ==
  /\ ret # <<>>
  /\ arg \in TpHitInputs
  /\ Len(Trades) = 4
  /\ AtTp1(Trades[1]) /\ AtTp2(Trades[2]) /\ AtTp3(Trades[3])
  /\ Trades[4] = TradeDict(Null, 101, "dict", Null, Str(s_empty))
  /\ ret.raised

\* the rows of the group of the call, latest first, and the value each
\* carries for a field: the current column, else the legacy column
RowsLatestFirst == Reverse(WebhooksOf(Stamped(arg.logs), arg.trade_group_id))

\* C24: get_most_recent_sltp returns, for SL and TP independently, the value
\* of the most recent alert of the group that carries a non-null value for
\* the field, and reports the field as absent only when no alert of the
\* group carries a value; a recorded value of 0 counts as a present value
C24_MostRecentCarried ==
  (ret # <<>> /\ arg \in MostRecentInputs)
    => \E rows \in {RowsLatestFirst} :
         /\ ret.current_stop_loss
              = FirstCarried([i \in 1..Len(rows) |-> SlOf(rows[i])])
         /\ ret.current_take_profit
              = FirstCarried([i \in 1..Len(rows) |-> TpOf(rows[i])])

\* the same with a 0 in the current column read as no value there
C24_MostRecentCarriedZeroAsNone ==
  (ret # <<>> /\ arg \in MostRecentInputs)
    => \E rows \in {RowsLatestFirst} :
         /\ ret.current_stop_loss
              = FirstCarried([i \in 1..Len(rows) |->
                                FloatOr(rows[i].current_stop_loss, rows[i].stop_loss)])
         /\ ret.current_take_profit
              = FirstCarried([i \in 1..Len(rows) |->
                                FloatOr(rows[i].current_take_profit, rows[i].take_profit)])

\* a group whose only alert has a stop loss of 0: reported as absent
C24_ZeroStopLossAbsent ==
  /\ ret # <<>>
  /\ arg \in MostRecentInputs
  /\ Len(RowsLatestFirst) = 1
  /\ RowsLatestFirst[1].current_stop_loss = Some(0)
  /\ RowsLatestFirst[1].stop_loss = None
  /\ ret.current_stop_loss = None

\* the groups of the history that the Oanda path holds to be open
OandaActive(H) ==
  {g \in {H[i].trade_group_id : i \in 1..Len(H)} \ {NoGroup} :
     ~_is_oanda_trade_closed(H, config, g)}

\* the closing alerts of C25 under configuration c: the closing TP level,
\* the closing SL level (plain SL when sl_count is 1), an EXIT, or a position
\* size of 0 in the payload of the sender
ClosesByConfig(r, c) ==
  \/ r.tp_level = s_EXIT
  \/ r.tp_level = LevelName(s_TP, c.tp_count)
  \/ r.tp_level = LevelName(s_SL, c.sl_count)
  \/ c.sl_count = 1 /\ r.tp_level = s_SL
  \/ OandaParseFloat(r.raw_payload.position_size) = Some(0)

\* C25: on the Oanda indicator path the per-symbol configuration makes the
\* final closing decision: a group is CLOSED only when an alert at SL level
\* sl_count, at TP level tp_count, an EXIT or a zero position size reported
\* by the sender is recorded, and stays ACTIVE after lower SL and TP levels
C25_ConfigDecidesClosing ==
  \A g \in GroupIds :
     _is_oanda_trade_closed(history, config, g)
       <=> \E i \in 1..Len(history) :
             history[i].trade_group_id = g /\ ClosesByConfig(history[i], ConfigOf(g))

\* what closes a group: an alert that closes by the configuration, or one the
\* parser marked as closing (any SL, and a TP level at or above the tp_count
\* of the payload, 1 when the payload has none)
C25_ParserFlagDecidesToo ==
  \A g \in GroupIds :
     _is_oanda_trade_closed(history, config, g)
       <=> \E i \in 1..Len(history) :
             /\ history[i].trade_group_id = g
             /\ \/ ClosesByConfig(history[i], ConfigOf(g))
                \/ /\ history[i].tp_level # None
                   /\ _should_close_position(history[i].tp_level,
                                             OandaParseInt(history[i].raw_payload.tp_count))

\* an entry and an SL1 under sl_count = 3: the group is closed
C25_Sl1ClosesUnderThree ==
  /\ Len(history) = 2
  /\ config # <<>> /\ config[OandaKey].sl_count = 3
  /\ history[1].raw_payload.signal_type = Str(s_bull_entry)
  /\ history[2].tp_level = s_SL1
  /\ history[2].trade_group_id = history[1].trade_group_id
  /\ _is_oanda_trade_closed(history, config, history[1].trade_group_id)

\* C26: on the Oanda indicator path there is at most one ACTIVE trade group
\* per user and symbol at any time (all alerts are of one user and symbol)
C26_OneActiveGroup == Cardinality(OandaActive(history)) <= 1

\* a signal that is no entry opens no further group beside an open one
C26_OnlyEntriesAddGroups ==
  [][(Appends /\ OandaActive(history) # {}
        /\ history'[Len(history')].raw_payload.signal_type
              \notin {Str(s_bull_entry), Str(s_bear_entry)})
       => OandaActive(history') \subseteq OandaActive(history)]_vars

\* two entries in a row: two open groups for EUR_USD
C26_TwoEntriesTwoGroups ==
  /\ Len(history) = 2
  /\ history[1].raw_payload.signal_type = Str(s_bull_entry)
  /\ history[2].raw_payload.signal_type = Str(s_bull_entry)
  /\ Cardinality(OandaActive(history)) = 2

\* an alert of the generic path whose alert type is an exit type
IsExitTyped(row) ==
  /\ ~(row.broker = "oanda" /\ can_parse(row.raw_payload))
  /\ ~normalize(row.raw_payload).raised
  /\ normalize(row.raw_payload).alert_type \in ExitAlertTypes

\* C27: an alert whose alert type is an exit type (TP1..TP5, STOP_LOSS,
\* PARTIAL or EXIT) is never handled by the entry path: is_new_group is never
\* true for it and it never opens a fresh group with its own price as entry
\* price, whatever its action and market_position
C27_ExitNeverOnEntryPath ==
  [][Appends =>
       LET row == history'[Len(history')]
           result == OutcomeBefore(row).result
       IN  IsExitTyped(row) =>
             /\ ~result.is_new_group
             /\ row.trade_group_id \notin IdsIn(history) => row.entry_price = None]_vars

\* an exit-typed alert is on the entry path only when neither its order type
\* nor its market_position names a direction and its action is buy or sell
C27_EntryPathOnlyByAction ==
  [][Appends =>
       LET row == history'[Len(history')]
           result == OutcomeBefore(row).result
           normalized == normalize(row.raw_payload)
       IN  IsExitTyped(row) =>
             /\ result.is_new_group
                  <=> /\ ~Contains(s_long, normalized.order_type)
                      /\ ~Contains(s_short, normalized.order_type)
                      /\ normalized.market_position \in {<<>>, s_flat}
                      /\ normalized.action \in {s_buy, s_sell}
             /\ (~result.is_new_group /\ row.trade_group_id \notin IdsIn(history))
                  => row.entry_price = None]_vars

\* a TP1 alert with action sell and no direction opened a short group with
\* its own price as entry price
C27_Tp1OpensGroup ==
  \E i \in 1..Len(history) :
     /\ IsExitTyped(history[i])
     /\ history[i].tp_level = s_TP1
     /\ history[i].raw_payload = Tp1SellOnly
     /\ history[i].trade_group_id \notin IdsIn(SubSeq(history, 1, i - 1)) \cup {NoGroup}
     /\ history[i].trade_direction = s_short
     /\ history[i].entry_price = normalize(Tp1SellOnly).order_price
     /\ history[i].entry_price # None

\* C28: after any sequence of alerts processed one at a time through either
\* grouping path, all history records that carry the same trade group id
\* belong to the same user, the same stored symbol and the same direction
C28_GroupIsHomogeneous ==
  \A i \in 1..Len(history) : \A j \in 1..Len(history) :
     (history[i].trade_group_id # NoGroup
        /\ history[i].trade_group_id = history[j].trade_group_id)
       => /\ history[i].user_id = history[j].user_id
          /\ history[i].symbol = history[j].symbol
          /\ history[i].trade_direction = history[j].trade_direction

\* the records of a group belong to one user and one direction, and to one
\* stored symbol among the records of one broker
C28_HomogeneousPerBroker ==
  \A i \in 1..Len(history) : \A j \in 1..Len(history) :
     (history[i].trade_group_id # NoGroup
        /\ history[i].trade_group_id = history[j].trade_group_id)
       => /\ history[i].user_id = history[j].user_id
          /\ history[i].trade_direction = history[j].trade_direction
          /\ history[i].broker = history[j].broker
               => history[i].symbol = history[j].symbol

\* an entry received on the oanda route and a TP1 received on the blofin
\* route share a group id and differ in their stored symbol
C28_TwoSymbolsInGroup ==
  \E i \in 1..Len(history) : \E j \in 1..Len(history) :
     /\ i < j
     /\ history[i].trade_group_id # NoGroup
     /\ history[i].trade_group_id = history[j].trade_group_id
     /\ history[i].broker = "oanda" /\ history[j].broker = "blofin"
     /\ history[i].tp_level = s_ENTRY /\ history[j].tp_level = s_TP1
     /\ history[i].symbol = s_EUR_USD
     /\ history[j].symbol # s_EUR_USD

\* the order prices of the ENTRY alerts among the rows of group g
EntryPricesOf(H, g) ==
  {OrderPriceOf(H[i].broker, H[i].raw_payload) :
     i \in {k \in 1..Len(H) : H[k].trade_group_id = g /\ H[k].tp_level = s_ENTRY}}

\* C29: whenever an exit alert is assigned to an existing group, the entry
\* price returned for it is the order price of an ENTRY alert of that group,
\* or is absent; it is never the price of an earlier exit alert of the group,
\* including for groups that began as orphaned groups
C29_EntryPriceFromEntry ==
  [][Appends =>
       LET row == history'[Len(history')]
           result == OutcomeBefore(row).result
       IN  (row.trade_group_id \in IdsIn(history) /\ row.tp_level \in ExitAlertTypes
              /\ result.trade_group_id = row.trade_group_id)
             => /\ row.entry_price = result.entry_price
                /\ result.entry_price \in EntryPricesOf(history, row.trade_group_id) \cup {None}]_vars

\* the entry price is read from the first record of the group: its cached
\* entry price, else its price, whatever its alert type
C29_EntryPriceFromFirstRecord ==
  [][Appends =>
       LET row == history'[Len(history')]
           result == OutcomeBefore(row).result
           first == WebhooksOf(history, row.trade_group_id)[1]
       IN  (row.trade_group_id \in IdsIn(history) /\ row.tp_level \in ExitAlertTypes
              /\ result.trade_group_id = row.trade_group_id)
             => /\ row.entry_price = result.entry_price
                /\ result.entry_price = IF first.entry_price # None THEN first.entry_price
                                         ELSE first.price]_vars

\* an exit joined a group that began with an exit and carries the price of
\* that exit as its entry price
C29_ExitPriceAsEntryPrice ==
  \E j \in 2..Len(history) :
     LET first == WebhooksOf(SubSeq(history, 1, j - 1), history[j].trade_group_id)[1]
     IN  /\ history[j].trade_group_id \in IdsIn(SubSeq(history, 1, j - 1))
         /\ history[j].tp_level \in ExitAlertTypes
         /\ first.tp_level \in ExitAlertTypes
         /\ EntryPricesOf(history, history[j].trade_group_id) = {}
         /\ history[j].entry_price # None
         /\ history[j].entry_price = first.price

\* C30: once a history record has been stored with a trade group id, no
\* later operation (processing further alerts, or reprocessing that record)
\* changes the group id that record carries or removes it from its group
C30_GroupIdNeverMutated ==
  [][\A i \in 1..Len(history) :
        history[i].trade_group_id # NoGroup
          => /\ i <= Len(history')
             /\ history'[i].trade_group_id = history[i].trade_group_id]_vars

\* processing a further alert leaves every stored record as it is
C30_ProcessingKeepsRecords ==
  [][Appends => \A i \in 1..Len(history) : history'[i] = history[i]]_vars

\* an entry was reprocessed: it carries an id minted after that of the TP1
\* that had joined its group, and the TP1 still carries the id of the entry
C30_ReprocessedEntryLeftGroup ==
  /\ Len(history) = 2
  /\ history[1].tp_level = s_ENTRY /\ history[2].tp_level = s_TP1
  /\ history[1].trade_group_id # NoGroup /\ history[2].trade_group_id # NoGroup
  /\ history[2].trade_group_id[3] = history[1].timestamp
  /\ history[1].trade_group_id[4] > history[2].trade_group_id[4]

====
